---------------------------- MODULE Spec2Model ----------------------------
(***************************************************************************)
(* Map-coloring CSP solver (csp.py) and its driver (coloring_map.py):      *)
(* the constraint store, the heuristics, forward checking and the          *)
(* backtracking engine with its trace, as a state machine.                 *)
(*                                                                         *)
(* Python values are encoded as follows.                                   *)
(*   None (a variable name, a value)   the string "None"                   *)
(*   Optional[int] max_steps           <<>> for None, <<k>> for k          *)
(*   Optional[dict] result             <<>> for None, <<d>> for a dict d   *)
(*   assignment (a dict)               a function on Names, None where     *)
(*                                     the key is absent                   *)
(*   curr_domains                      the function with empty domain for  *)
(*                                     None, else a function on the CSP's  *)
(*                                     variables to sequences of values    *)
(***************************************************************************)
EXTENDS Integers, Sequences, FiniteSets, TLC

VARIABLES
    variables,                  \* CSP.variables: list of region names
    domains,                    \* CSP.domains: region -> list of values
    neighbors,                  \* CSP.neighbors: region -> list of regions
    select_unassigned_variable, \* backtracking_search parameter
    order_domain_values,        \* backtracking_search parameter
    inference,                  \* backtracking_search parameter
    tracing,                    \* whether a trace list was passed (trace is not None)
    max_steps,                  \* backtracking_search parameter
    curr_domains,               \* CSP.curr_domains
    nassigns,                   \* CSP.nassigns
    assignment,                 \* the dict shared by all backtrack frames
    stack,                      \* the call stack of backtrack frames
    trace,                      \* the trace list
    step,                       \* the nonlocal step counter of log
    outcome,                    \* where the call of backtracking_search stands
    result,                     \* what backtrack({}) returned
    twin,                       \* a second solve of an equal, fresh problem
    store,                      \* a CSP object driven directly through its pruning API
    log_events,                 \* solve_map_coloring parameter
    returned,                   \* what solve_map_coloring returned
    text,                       \* parse_neighbors parameter
    graph,                      \* what parse_neighbors returned
    inferred,                   \* a direct call of forward_checking and what it did
    ttt,                        \* the TicTacToe object: h, v, k
    state,                      \* the GameState at hand (play_game's local state)
    player,                     \* play_game: which of its player functions is next
    played,                     \* play_game: the last call of a player function
    final                       \* what play_game returned

config == <<variables, domains, neighbors, select_unassigned_variable,
            order_domain_values, inference, tracing, max_steps, log_events>>
engine == <<curr_domains, nassigns, assignment, stack, trace, step, outcome, result>>
parser == <<text, graph>>
direct == <<inferred>>
game == <<ttt, state, player, played, final>>
vars == <<config, engine, twin, store, returned, parser, direct, game>>

---------------------------------------------------------------------------
(* Bounds of the model *)

\* Palettes of 1..MaxColors letters are tried on the generated graphs.
MaxColors == 3
\* max_steps ranges over None and 0..MaxCap.
MaxCap == 4
\* The store, driven directly, sees at most MaxDrops prune calls that are
\* never restored and at most MaxPrunes prune calls per suppose.
MaxDrops == 1
MaxPrunes == 2

None == "None"

\* Region names, in sorted order.
AllRegions == <<"A", "B", "C", "D", "E">>
Names == {AllRegions[i] : i \in DOMAIN AllRegions}
\* The regions of the generated graphs.
Regions == <<"A", "B", "C">>

\* DOMAIN_LETTERS of coloring_map.py
DOMAIN_LETTERS == <<"R", "G", "B", "Y">>
Letters == {DOMAIN_LETTERS[i] : i \in DOMAIN DOMAIN_LETTERS}

---------------------------------------------------------------------------
(* Sequence helpers *)

Range(s) == {s[i] : i \in DOMAIN s}

\* The members of S in sorted (AllRegions) order: sorted(set(...))
SortedSeq(S) ==
    LET In(x) == x \in S IN SelectSeq(AllRegions, In)

\* list.remove(x): drops the first occurrence of x
RemoveFirst(s, x) ==
    LET i == CHOOSE j \in DOMAIN s : s[j] = x /\ \A k \in 1..(j-1) : s[k] # x
    IN  SubSeq(s, 1, i-1) \o SubSeq(s, i+1, Len(s))

\* How often x occurs in s
Count(s, x) == Cardinality({i \in DOMAIN s : s[i] = x})

\* len(d) of a dict encoded as a function with None for absent keys
DictLen(d) == Cardinality({v \in DOMAIN d : d[v] # None})

NoAssignment == [v \in Names |-> None]

---------------------------------------------------------------------------
(* CSP: the constraint store *)

\* Mutant of constraints: the comparison inverted, equal values accepted
constraints_same(A, a, B, b) == a = b

\* different_values_constraint(A, a, B, b)
constraints(A, a, B, b) == a # b

\* CSP.assign: assignment[var] = val; nassigns is counted by the caller's step
assign(var, val, asg) == [asg EXCEPT ![var] = val]

\* Mutant of unassign: the entry is left in the dict
unassign_keeps(var, asg) == asg

\* CSP.unassign: del assignment[var] if present
unassign(var, asg) == IF asg[var] # None THEN [asg EXCEPT ![var] = None] ELSE asg

\* Mutant of nconflicts: only the first neighbor is looked at
nconflicts_first_neighbor(var, val, asg) ==
    LET ns == neighbors[var]
    IN  IF ns # <<>> /\ asg[ns[1]] # None /\ ~constraints(var, val, ns[1], asg[ns[1]])
        THEN 1 ELSE 0

\* CSP.nconflicts: the neighbors of var that are assigned a value violating
\* the constraint against (var, val); neighbors.get(var, []) is walked as a list
nconflicts(var, val, asg) ==
    LET ns == neighbors[var]
    IN  Cardinality({i \in DOMAIN ns :
            /\ asg[ns[i]] # None
            /\ ~constraints(var, val, ns[i], asg[ns[i]])})

\* curr_domains is None
IsNone(cd) == DOMAIN cd = {}

\* CSP.support_pruning: the working copy is made on first use only
support_pruning(cd) ==
    IF IsNone(cd) THEN [v \in Range(variables) |-> domains[v]] ELSE cd

\* Mutant of suppose: the other values are logged but left in the domain
suppose_uncut(cd, var, value) ==
    LET cd1 == support_pruning(cd)
        Other(v) == v # value
        kept == SelectSeq(cd1[var], Other)
    IN  [removals |-> [i \in DOMAIN kept |-> <<var, kept[i]>>],
         curr_domains |-> cd1]

\* CSP.suppose: the removal log and the working domains with var cut to [value]
suppose(cd, var, value) ==
    LET cd1 == support_pruning(cd)
        Other(v) == v # value
        kept == SelectSeq(cd1[var], Other)
    IN  [removals |-> [i \in DOMAIN kept |-> <<var, kept[i]>>],
         curr_domains |-> [cd1 EXCEPT ![var] = <<value>>]]

\* Mutant of prune: the value is removed but not logged
prune_unlogged(cd, var, value, removals) ==
    IF value \in Range(cd[var])
    THEN [removals |-> removals,
          curr_domains |-> [cd EXCEPT ![var] = RemoveFirst(cd[var], value)]]
    ELSE [removals |-> removals, curr_domains |-> cd]

\* CSP.prune: value leaves var's working domain, if there, and is logged
prune(cd, var, value, removals) ==
    IF value \in Range(cd[var])
    THEN [removals |-> Append(removals, <<var, value>>),
          curr_domains |-> [cd EXCEPT ![var] = RemoveFirst(cd[var], value)]]
    ELSE [removals |-> removals, curr_domains |-> cd]

\* CSP.choices: (curr_domains or domains)[var]
choices(cd, var) == IF IsNone(cd) THEN domains[var] ELSE cd[var]

\* choices(var) of every region
AllChoices(cd) == [v \in Range(variables) |-> choices(cd, v)]

\* Mutant of restore: only the first logged value is put back
restore_first_only(cd, removals) ==
    IF removals = <<>> THEN cd
    ELSE [cd EXCEPT ![removals[1][1]] = Append(cd[removals[1][1]], removals[1][2])]

\* CSP.restore: every logged value is appended to its variable's working domain
RECURSIVE restore(_, _)
restore(cd, removals) ==
    IF removals = <<>> THEN cd
    ELSE LET r == Head(removals)
         IN  restore([cd EXCEPT ![r[1]] = Append(cd[r[1]], r[2])], Tail(removals))

---------------------------------------------------------------------------
(* Heuristics *)

\* [v for v in csp.variables if v not in assignment]
unassigned(asg) ==
    LET Free(v) == asg[v] = None IN SelectSeq(variables, Free)

\* first_unassigned_variable: the first unassigned region in csp.variables
first_unassigned_variable(asg) == Head(unassigned(asg))

\* num_legal_values: the working-domain size once working domains exist,
\* else the number of original values without conflict
num_legal_values(cd, var, asg) ==
    IF ~IsNone(cd) THEN Len(cd[var])
    ELSE Cardinality({i \in DOMAIN domains[var] :
                        nconflicts(var, domains[var][i], asg) = 0})

\* Mutant of argmin_best: <= for <, an element tied with the best replaces it
RECURSIVE argmin_best_last(_, _, _, _)
argmin_best_last(seq, key, i, best) ==
    IF i > Len(seq) THEN best
    ELSE LET x == seq[i]
         IN  IF best = <<>> \/ key[x] <= key[best[1]]
             THEN argmin_best_last(seq, key, i + 1, <<x>>)
             ELSE argmin_best_last(seq, key, i + 1, best)

\* The loop of argmin_random_tie: the list best after elements i.. of seq
RECURSIVE argmin_best(_, _, _, _)
argmin_best(seq, key, i, best) ==
    IF i > Len(seq) THEN best
    ELSE LET x == seq[i]
         IN  IF best = <<>> \/ key[x] < key[best[1]]
             THEN argmin_best(seq, key, i + 1, <<x>>)
             ELSE IF key[x] = key[best[1]]
                  THEN argmin_best(seq, key, i + 1, Append(best, x))
                  ELSE argmin_best(seq, key, i + 1, best)

\* argmin_random_tie: what random.choice(best) can return
argmin_random_tie(seq, key) == Range(argmin_best(seq, key, 1, <<>>))

\* mrv: the regions it can return
mrv(asg, cd) ==
    argmin_random_tie(unassigned(asg),
                      [v \in Range(variables) |-> num_legal_values(cd, v, asg)])

\* Mutant of unordered_domain_values: the original domain is listed, not the
\* current choices
unordered_domain_values_original(var, asg, cd) == domains[var]

\* unordered_domain_values: list(csp.choices(var))
unordered_domain_values(var, asg, cd) == choices(cd, var)

\* Mutant of StableSort: an unstable sort, equal keys come out reversed
StableSort_unstable(seq, key, maxKey) ==
    LET rev == [i \in DOMAIN seq |-> seq[Len(seq) + 1 - i]]
        RECURSIVE Build(_)
        Build(k) ==
            IF k > maxKey THEN <<>>
            ELSE LET HasKey(x) == key[x] = k
                 IN  SelectSeq(rev, HasKey) \o Build(k + 1)
    IN  Build(0)

\* sorted(seq, key=...): Python's sort is stable, so the result is seq's
\* elements grouped by ascending key, each group in seq's order
StableSort(seq, key, maxKey) ==
    LET RECURSIVE Build(_)
        Build(k) ==
            IF k > maxKey THEN <<>>
            ELSE LET HasKey(x) == key[x] = k
                 IN  SelectSeq(seq, HasKey) \o Build(k + 1)
    IN  Build(0)

\* Mutant of lcv: the values come back as choices has them, not sorted
lcv_unsorted(var, asg, cd) == choices(cd, var)

\* lcv: the choices sorted by the conflicts each value has
lcv(var, asg, cd) ==
    StableSort(choices(cd, var),
               [x \in Range(choices(cd, var)) |-> nconflicts(var, x, asg)],
               Len(neighbors[var]))

---------------------------------------------------------------------------
(* Inference *)

\* no_inference
no_inference(cd, var, value, asg, removals) ==
    [ok |-> TRUE, curr_domains |-> cd, removals |-> removals]

\* Mutant of prune_conflicting: the test inverted, the consistent values pruned
RECURSIVE prune_conflicting_inverted(_, _, _, _, _, _)
prune_conflicting_inverted(cd, var, value, B, bs, removals) ==
    IF bs = <<>> THEN [curr_domains |-> cd, removals |-> removals]
    ELSE LET p == IF constraints(var, value, B, Head(bs))
                  THEN prune(cd, B, Head(bs), removals)
                  ELSE [removals |-> removals, curr_domains |-> cd]
         IN  prune_conflicting_inverted(p.curr_domains, var, value, B, Tail(bs),
                                        p.removals)

\* forward_checking, inner loop: for b in list(curr_domains[B]), bs what is left of it
RECURSIVE prune_conflicting(_, _, _, _, _, _)
prune_conflicting(cd, var, value, B, bs, removals) ==
    IF bs = <<>> THEN [curr_domains |-> cd, removals |-> removals]
    ELSE LET p == IF ~constraints(var, value, B, Head(bs))
                  THEN prune(cd, B, Head(bs), removals)
                  ELSE [removals |-> removals, curr_domains |-> cd]
         IN  prune_conflicting(p.curr_domains, var, value, B, Tail(bs), p.removals)

\* Mutant of check_neighbors: an emptied domain is not reported
RECURSIVE check_neighbors_no_fail(_, _, _, _, _, _)
check_neighbors_no_fail(cd, var, value, asg, removals, i) ==
    IF i > Len(neighbors[var])
    THEN [ok |-> TRUE, curr_domains |-> cd, removals |-> removals]
    ELSE LET B == neighbors[var][i]
         IN  IF asg[B] # None
             THEN check_neighbors_no_fail(cd, var, value, asg, removals, i + 1)
             ELSE LET p == prune_conflicting(cd, var, value, B, cd[B], removals)
                  IN  check_neighbors_no_fail(p.curr_domains, var, value, asg,
                                              p.removals, i + 1)

\* Mutant of check_neighbors: the emptiness test comes before the pruning loop
RECURSIVE check_neighbors_test_first(_, _, _, _, _, _)
check_neighbors_test_first(cd, var, value, asg, removals, i) ==
    IF i > Len(neighbors[var])
    THEN [ok |-> TRUE, curr_domains |-> cd, removals |-> removals]
    ELSE LET B == neighbors[var][i]
         IN  IF asg[B] # None
             THEN check_neighbors_test_first(cd, var, value, asg, removals, i + 1)
             ELSE IF cd[B] = <<>>
                  THEN [ok |-> FALSE, curr_domains |-> cd, removals |-> removals]
                  ELSE LET p == prune_conflicting(cd, var, value, B, cd[B], removals)
                       IN  check_neighbors_test_first(p.curr_domains, var, value,
                                                      asg, p.removals, i + 1)

\* Mutant of check_neighbors: no early return, every neighbor is pruned and
\* the failure is reported at the end
RECURSIVE check_neighbors_no_return(_, _, _, _, _, _)
check_neighbors_no_return(cd, var, value, asg, removals, i) ==
    IF i > Len(neighbors[var])
    THEN [ok |-> \A j \in DOMAIN neighbors[var] :
                    asg[neighbors[var][j]] # None \/ cd[neighbors[var][j]] # <<>>,
          curr_domains |-> cd, removals |-> removals]
    ELSE LET B == neighbors[var][i]
         IN  IF asg[B] # None
             THEN check_neighbors_no_return(cd, var, value, asg, removals, i + 1)
             ELSE LET p == prune_conflicting(cd, var, value, B, cd[B], removals)
                  IN  check_neighbors_no_return(p.curr_domains, var, value, asg,
                                                p.removals, i + 1)

\* Mutant of check_neighbors: the membership test inverted, the assigned
\* neighbors are pruned and the unassigned ones skipped
RECURSIVE check_neighbors_skips_unassigned(_, _, _, _, _, _)
check_neighbors_skips_unassigned(cd, var, value, asg, removals, i) ==
    IF i > Len(neighbors[var])
    THEN [ok |-> TRUE, curr_domains |-> cd, removals |-> removals]
    ELSE LET B == neighbors[var][i]
         IN  IF asg[B] = None
             THEN check_neighbors_skips_unassigned(cd, var, value, asg, removals, i + 1)
             ELSE LET p == prune_conflicting(cd, var, value, B, cd[B], removals)
                  IN  IF p.curr_domains[B] = <<>>
                      THEN [ok |-> FALSE, curr_domains |-> p.curr_domains,
                            removals |-> p.removals]
                      ELSE check_neighbors_skips_unassigned(p.curr_domains, var, value,
                                                            asg, p.removals, i + 1)

\* forward_checking, outer loop from the i-th neighbor of var on
RECURSIVE check_neighbors(_, _, _, _, _, _)
check_neighbors(cd, var, value, asg, removals, i) ==
    IF i > Len(neighbors[var])
    THEN [ok |-> TRUE, curr_domains |-> cd, removals |-> removals]
    ELSE LET B == neighbors[var][i]
         IN  IF asg[B] # None
             THEN check_neighbors(cd, var, value, asg, removals, i + 1)
             ELSE LET p == prune_conflicting(cd, var, value, B, cd[B], removals)
                  IN  IF p.curr_domains[B] = <<>>
                      THEN [ok |-> FALSE, curr_domains |-> p.curr_domains,
                            removals |-> p.removals]
                      ELSE check_neighbors(p.curr_domains, var, value, asg,
                                           p.removals, i + 1)

\* forward_checking
forward_checking(cd, var, value, asg, removals) ==
    check_neighbors(support_pruning(cd), var, value, asg, removals, 1)

---------------------------------------------------------------------------
(* backtracking_search: one solve as a record e of the engine's state *)

\* A frame of backtrack: where it stands (pc), its var, the list its for loop
\* walks (values), the loop's position (idx) and its removals list; at_try is
\* history, not a local of the code: the assignment and every region's choices
\* as they were when the loop's current value was logged as TRY
EnterFrame == [pc |-> "enter", var |-> None, values |-> <<>>, idx |-> 0,
               removals |-> <<>>, at_try |-> <<>>]

\* The state when backtracking_search calls backtrack({}) on a fresh CSP
FreshSolve ==
    [curr_domains |-> <<>>, nassigns |-> 0, assignment |-> NoAssignment,
     stack |-> <<EnterFrame>>, trace |-> <<>>, step |-> 0,
     outcome |-> "running", result |-> <<>>]

Top(e) == e.stack[Len(e.stack)]
SetTop(e, f) == [e EXCEPT !.stack[Len(e.stack)] = f]
At(e, pc) == e.outcome = "running" /\ e.stack # <<>> /\ Top(e).pc = pc

\* log raised RuntimeError, which nothing catches
Raised(e) == e.outcome = "overflow"

\* Mutant of log: past the cap the event is dropped and the search goes on
log_drops(e, event, var, val) ==
    IF ~tracing THEN e
    ELSE IF max_steps # <<>> /\ e.step + 1 > max_steps[1]
         THEN [e EXCEPT !.step = e.step + 1]
         ELSE [e EXCEPT !.step = e.step + 1,
                        !.trace = Append(e.trace,
                            [step |-> e.step + 1,
                             depth |-> DictLen(e.assignment),
                             event |-> event, var |-> var, val |-> val,
                             assignment |-> e.assignment])]

\* Mutant of log: the event keeps the assignment dict itself, not a copy, so
\* every recorded snapshot shows the assignment as it is now
log_by_reference(e, event, var, val) ==
    IF ~tracing THEN e
    ELSE IF max_steps # <<>> /\ e.step + 1 > max_steps[1]
         THEN [e EXCEPT !.step = e.step + 1, !.outcome = "overflow"]
         ELSE [e EXCEPT !.step = e.step + 1,
                        !.trace = Append(
                            [i \in DOMAIN e.trace |->
                                [e.trace[i] EXCEPT !.assignment = e.assignment]],
                            [step |-> e.step + 1,
                             depth |-> DictLen(e.assignment),
                             event |-> event, var |-> var, val |-> val,
                             assignment |-> e.assignment])]

\* log(event, assignment, var, val)
log(e, event, var, val) ==
    IF ~tracing THEN e
    ELSE IF max_steps # <<>> /\ e.step + 1 > max_steps[1]
         THEN [e EXCEPT !.step = e.step + 1, !.outcome = "overflow"]
         ELSE [e EXCEPT !.step = e.step + 1,
                        !.trace = Append(e.trace,
                            [step |-> e.step + 1,
                             depth |-> DictLen(e.assignment),
                             event |-> event, var |-> var, val |-> val,
                             assignment |-> e.assignment])]

\* is_goal
is_goal(asg) ==
    /\ DictLen(asg) = Len(variables)
    /\ \A i \in DOMAIN variables :
          nconflicts(variables[i], asg[variables[i]], asg) = 0

\* backtrack, lines 233-254: every region is assigned; GOAL is logged and the
\* copy of the assignment is returned through every frame
GoalStep(e) ==
    LET e1 == log(e, "GOAL", None, None)
    IN  IF Raised(e1) THEN e1
        ELSE [e1 EXCEPT !.stack = <<>>, !.result = <<e.assignment>>,
                        !.outcome = "returned"]

\* Mutant of Selectable: ties among the unassigned regions are broken at
\* random whatever selector was passed
Selectable_random(e) == mrv(e.assignment, e.curr_domains)

\* The regions select_unassigned_variable can return
Selectable(e) ==
    IF select_unassigned_variable = "mrv"
    THEN mrv(e.assignment, e.curr_domains)
    ELSE {first_unassigned_variable(e.assignment)}

\* order_domain_values(var, assignment, csp)
Ordered(e, var) ==
    IF order_domain_values = "lcv"
    THEN lcv(var, e.assignment, e.curr_domains)
    ELSE unordered_domain_values(var, e.assignment, e.curr_domains)

\* backtrack, lines 259-269: the region is selected and its values ordered
SelectStep(e, var) ==
    SetTop(e, [pc |-> "loop", var |-> var, values |-> Ordered(e, var),
               idx |-> 1, removals |-> <<>>, at_try |-> <<>>])

\* backtrack, line 288: the next value of the loop is logged as TRY
TryStep(e) ==
    LET f == Top(e)
        e1 == log(e, "TRY", f.var, f.values[f.idx])
    IN  IF Raised(e1) THEN e1
        ELSE SetTop(e1, [f EXCEPT !.pc = "tried",
                 !.at_try = <<[assignment |-> e.assignment,
                               choices |-> AllChoices(e.curr_domains)]>>])

\* Mutant of Conflicting: the conflict test is skipped
Conflicting_never(e) == FALSE

\* line 290: the value conflicts with an assigned neighbor
Conflicting(e) ==
    nconflicts(Top(e).var, Top(e).values[Top(e).idx], e.assignment) # 0

\* lines 290-294: CONFLICT, continue
ConflictStep(e) ==
    LET f == Top(e)
        e1 == log(e, "CONFLICT", f.var, f.values[f.idx])
    IN  IF Raised(e1) THEN e1
        ELSE SetTop(e1, [f EXCEPT !.pc = "loop", !.idx = f.idx + 1])

\* Mutant of AssignStep: ASSIGN is logged before csp.assign is called
AssignStep_log_first(e) ==
    LET f == Top(e)
        e1 == log(e, "ASSIGN", f.var, f.values[f.idx])
        e2 == [e1 EXCEPT !.assignment = assign(f.var, f.values[f.idx], e.assignment),
                         !.nassigns = e.nassigns + 1]
    IN  IF Raised(e1) THEN e1 ELSE SetTop(e2, [f EXCEPT !.pc = "assigned"])

\* lines 297-307: csp.assign, then ASSIGN
AssignStep(e) ==
    LET f == Top(e)
        e1 == [e EXCEPT !.assignment = assign(f.var, f.values[f.idx], e.assignment),
                        !.nassigns = e.nassigns + 1]
        e2 == log(e1, "ASSIGN", f.var, f.values[f.idx])
    IN  IF Raised(e2) THEN e2 ELSE SetTop(e2, [f EXCEPT !.pc = "assigned"])

\* inference(csp, var, value, assignment, removals)
Inferred(cd, var, value, asg, removals) ==
    IF inference = "forward_checking"
    THEN forward_checking(cd, var, value, asg, removals)
    ELSE no_inference(cd, var, value, asg, removals)

\* Mutant of InferStep: the removals list is not made anew for each value,
\* the log of the loop's earlier values stays in it
InferStep_keeps_log(e) ==
    LET f == Top(e)
        s == suppose(e.curr_domains, f.var, f.values[f.idx])
        r == Inferred(s.curr_domains, f.var, f.values[f.idx], e.assignment,
                      f.removals \o s.removals)
        e1 == [e EXCEPT !.curr_domains = r.curr_domains]
    IN  IF r.ok
        THEN [e1 EXCEPT !.stack = Append(
                 [e.stack EXCEPT ![Len(e.stack)] =
                     [f EXCEPT !.pc = "called", !.removals = r.removals]],
                 EnterFrame)]
        ELSE SetTop(e1, [f EXCEPT !.pc = "inferfail", !.removals = r.removals])

\* lines 311-340: suppose, inference, and on success the recursive call
InferStep(e) ==
    LET f == Top(e)
        s == suppose(e.curr_domains, f.var, f.values[f.idx])
        r == Inferred(s.curr_domains, f.var, f.values[f.idx], e.assignment,
                      s.removals)
        e1 == [e EXCEPT !.curr_domains = r.curr_domains]
    IN  IF r.ok
        THEN [e1 EXCEPT !.stack = Append(
                 [e.stack EXCEPT ![Len(e.stack)] =
                     [f EXCEPT !.pc = "called", !.removals = r.removals]],
                 EnterFrame)]
        ELSE SetTop(e1, [f EXCEPT !.pc = "inferfail", !.removals = r.removals])

\* lines 348-349: INFER_FAIL
InferFailStep(e) ==
    LET f == Top(e)
        e1 == log(e, "INFER_FAIL", f.var, f.values[f.idx])
    IN  IF Raised(e1) THEN e1 ELSE SetTop(e1, [f EXCEPT !.pc = "undo"])

\* line 380: the loop is over, backtrack returns None to its caller, whose
\* result is None (line 341), or to backtracking_search
ReturnNoneStep(e) ==
    LET rest == SubSeq(e.stack, 1, Len(e.stack) - 1)
    IN  IF rest = <<>>
        THEN [e EXCEPT !.stack = <<>>, !.result = <<>>, !.outcome = "returned"]
        ELSE [e EXCEPT !.stack =
                 [rest EXCEPT ![Len(rest)] = [rest[Len(rest)] EXCEPT !.pc = "undo"]]]

\* Mutant of BacktrackStep: the removal log is not restored
BacktrackStep_no_restore(e) ==
    LET f == Top(e)
        e1 == [e EXCEPT !.assignment = unassign(f.var, e.assignment)]
        e2 == log(e1, "BACKTRACK", f.var, f.values[f.idx])
    IN  IF Raised(e2) THEN e2
        ELSE SetTop(e2, [f EXCEPT !.pc = "loop", !.idx = f.idx + 1])

\* lines 353-370: restore, unassign, BACKTRACK, next value
BacktrackStep(e) ==
    LET f == Top(e)
        e1 == [e EXCEPT !.curr_domains = restore(e.curr_domains, f.removals),
                        !.assignment = unassign(f.var, e.assignment)]
        e2 == log(e1, "BACKTRACK", f.var, f.values[f.idx])
    IN  IF Raised(e2) THEN e2
        ELSE SetTop(e2, [f EXCEPT !.pc = "loop", !.idx = f.idx + 1])

\* backtracking_search, lines 384-387: the sanity check of what backtrack returned
ValidateStep(e) ==
    IF e.result # <<>> /\ ~is_goal(e.result[1])
    THEN [e EXCEPT !.outcome = "invalid"]
    ELSE [e EXCEPT !.outcome = IF e.result = <<>> THEN "none" ELSE "solution"]

\* line 233: len(assignment) == len(csp.variables)
Complete(e) == DictLen(e.assignment) = Len(variables)
MoreValues(e) == Top(e).idx <= Len(Top(e).values)

\* Every state one step of the solve can lead to from e
Successors(e) ==
    UNION {
        IF At(e, "enter") /\ Complete(e) THEN {GoalStep(e)} ELSE {},
        IF At(e, "enter") /\ ~Complete(e)
            THEN {SelectStep(e, v) : v \in Selectable(e)} ELSE {},
        IF At(e, "loop") /\ MoreValues(e) THEN {TryStep(e)} ELSE {},
        IF At(e, "tried") /\ Conflicting(e) THEN {ConflictStep(e)} ELSE {},
        IF At(e, "tried") /\ ~Conflicting(e) THEN {AssignStep(e)} ELSE {},
        IF At(e, "assigned") THEN {InferStep(e)} ELSE {},
        IF At(e, "inferfail") THEN {InferFailStep(e)} ELSE {},
        IF At(e, "loop") /\ ~MoreValues(e) THEN {ReturnNoneStep(e)} ELSE {},
        IF At(e, "undo") THEN {BacktrackStep(e)} ELSE {},
        IF e.outcome = "returned" THEN {ValidateStep(e)} ELSE {} }

---------------------------------------------------------------------------
(* Problems: what MapColoringCSP builds from a palette and a neighbor dict *)

\* list(colors) for a palette of the first k letters
Palette(k) == SubSeq(DOMAIN_LETTERS, 1, k)

\* The neighbor dict of an undirected graph with the given edges, lists sorted
\* as build_adjacency and parse_neighbors leave them
Undirected(edges) ==
    [v \in Names |-> SortedSeq({w \in Names : {v, w} \in edges})]

\* The neighbor dict of a directed graph: w is listed under v for <<v, w>>
Directed(arcs) ==
    [v \in Names |-> SortedSeq({w \in Names : <<v, w>> \in arcs})]

Pairs(S) == {{v, w} : v, w \in S} \ {{v} : v \in S}

\* Every undirected graph on the first n regions, with every palette size
GeneratedProblems ==
    UNION {{[variables |-> SubSeq(Regions, 1, n), neighbors |-> Undirected(edges),
             colors |-> Palette(k)] :
                edges \in SUBSET Pairs(Range(SubSeq(Regions, 1, n))),
                k \in 1..MaxColors} :
           n \in 1..Len(Regions)}

Cycle4 == Undirected({{"A", "B"}, {"B", "C"}, {"C", "D"}, {"D", "A"}})
Cycle5 == Undirected({{"A", "B"}, {"B", "C"}, {"C", "D"}, {"D", "E"}, {"E", "A"}})
Triangle == Undirected({{"A", "B"}, {"B", "C"}, {"A", "C"}})

\* A path A-C-D-B whose regions are listed as A, B, C, D: taking regions in
\* that order with the first label each commits A and B to the same label,
\* which the search has to undo
Detour == Undirected({{"A", "C"}, {"C", "D"}, {"D", "B"}})

\* The spec's scenarios, the 4-cycle and the 5-cycle with two labels, and the
\* detour with two labels
ScenarioProblems ==
    {[variables |-> SubSeq(AllRegions, 1, 4), neighbors |-> Cycle4,
      colors |-> Palette(2)],
     [variables |-> SubSeq(AllRegions, 1, 5), neighbors |-> Cycle5,
      colors |-> Palette(2)],
     [variables |-> SubSeq(AllRegions, 1, 4), neighbors |-> Detour,
      colors |-> Palette(2)]}

\* Neighbor dicts that are not symmetric (a CSP built from a hand-made dict)
AsymmetricProblems ==
    {[variables |-> SubSeq(AllRegions, 1, 2), neighbors |-> Directed(arcs),
      colors |-> Palette(k)] :
        arcs \in {{<<"A", "B">>}, {<<"B", "A">>}}, k \in 1..2}

\* A dict in which A lists itself, as parse_neighbors makes of "A: A B"
SelfLoop == Directed({<<"A", "A">>, <<"A", "B">>, <<"B", "A">>})

\* Symmetric neighbor dicts with a region listed under itself
SelfLoopProblems ==
    {[variables |-> SubSeq(AllRegions, 1, 2), neighbors |-> SelfLoop,
      colors |-> Palette(k)] : k \in 1..2}

Problems ==
    GeneratedProblems \cup ScenarioProblems \cup AsymmetricProblems
        \cup SelfLoopProblems

Selectors == {"mrv", "first_unassigned_variable"}
Orderers == {"lcv", "unordered_domain_values"}
Inferences == {"forward_checking", "no_inference"}
Caps == {<<>>} \cup {<<k>> : k \in 0..MaxCap}

\* MapColoringCSP(colors, neighbors): variables are the dict's keys, every
\* region gets the whole palette
MapColoringCSP(p) ==
    /\ variables = p.variables
    /\ neighbors = p.neighbors
    /\ domains = [v \in Range(p.variables) |-> p.colors]

Symmetric ==
    \A v, w \in Range(variables) :
        w \in Range(neighbors[v]) <=> v \in Range(neighbors[w])

---------------------------------------------------------------------------
(* The solve as a state machine *)

Cur ==
    [curr_domains |-> curr_domains, nassigns |-> nassigns,
     assignment |-> assignment, stack |-> stack, trace |-> trace,
     step |-> step, outcome |-> outcome, result |-> result]

Become(e) ==
    /\ curr_domains' = e.curr_domains
    /\ nassigns' = e.nassigns
    /\ assignment' = e.assignment
    /\ stack' = e.stack
    /\ trace' = e.trace
    /\ step' = e.step
    /\ outcome' = e.outcome
    /\ result' = e.result

\* A freshly constructed CSP, no suppose under way: removals is the log of
\* the open suppose, before the choices of every region when it was called,
\* once whether its value occurred exactly once in its region's choices, and
\* last what the latest restore closed
IdleStore ==
    [curr_domains |-> <<>>, open |-> FALSE, removals |-> <<>>, before |-> <<>>,
     once |-> FALSE, last |-> <<>>, drops |-> 0, prunes |-> 0]

\* backtracking_search is called directly: solve_map_coloring and
\* parse_neighbors are not called
NoDriver ==
    /\ log_events = <<>>
    /\ returned = <<>>
    /\ text = <<>>
    /\ graph = <<>>
    /\ inferred = <<>>

\* No TicTacToe object is made, play_game is not called
NoGame ==
    /\ ttt = <<>>
    /\ state = <<>>
    /\ player = 0
    /\ played = <<>>
    /\ final = <<>>

InitConfig ==
    /\ \E p \in Problems : MapColoringCSP(p)
    /\ select_unassigned_variable \in Selectors
    /\ order_domain_values \in Orderers
    /\ inference \in Inferences
    /\ tracing \in BOOLEAN
    /\ max_steps \in Caps
    /\ ~tracing => max_steps = <<>>
    \* Without pruning every unassigned region ties under mrv at every call; on
    \* the 5-cycle, which has no coloring, the tie-breaks of one exhaustive
    \* search multiply beyond what is checked here
    /\ (neighbors = Cycle5 /\ select_unassigned_variable = "mrv")
           => inference = "forward_checking"

Init ==
    /\ InitConfig
    /\ curr_domains = FreshSolve.curr_domains
    /\ nassigns = FreshSolve.nassigns
    /\ assignment = FreshSolve.assignment
    /\ stack = FreshSolve.stack
    /\ trace = FreshSolve.trace
    /\ step = FreshSolve.step
    /\ outcome = FreshSolve.outcome
    /\ result = FreshSolve.result
    /\ twin = FreshSolve
    /\ store = IdleStore
    /\ NoDriver
    /\ NoGame

Goal ==
    /\ At(Cur, "enter") /\ Complete(Cur)
    /\ Become(GoalStep(Cur))
    /\ UNCHANGED <<config, twin, store, returned, parser, direct, game>>

Select ==
    /\ At(Cur, "enter") /\ ~Complete(Cur)
    /\ \E var \in Selectable(Cur) : Become(SelectStep(Cur, var))
    /\ UNCHANGED <<config, twin, store, returned, parser, direct, game>>

Try ==
    /\ At(Cur, "loop") /\ MoreValues(Cur)
    /\ Become(TryStep(Cur))
    /\ UNCHANGED <<config, twin, store, returned, parser, direct, game>>

Conflict ==
    /\ At(Cur, "tried") /\ Conflicting(Cur)
    /\ Become(ConflictStep(Cur))
    /\ UNCHANGED <<config, twin, store, returned, parser, direct, game>>

Assign ==
    /\ At(Cur, "tried") /\ ~Conflicting(Cur)
    /\ Become(AssignStep(Cur))
    /\ UNCHANGED <<config, twin, store, returned, parser, direct, game>>

Infer ==
    /\ At(Cur, "assigned")
    /\ Become(InferStep(Cur))
    /\ UNCHANGED <<config, twin, store, returned, parser, direct, game>>

InferFail ==
    /\ At(Cur, "inferfail")
    /\ Become(InferFailStep(Cur))
    /\ UNCHANGED <<config, twin, store, returned, parser, direct, game>>

ReturnNone ==
    /\ At(Cur, "loop") /\ ~MoreValues(Cur)
    /\ Become(ReturnNoneStep(Cur))
    /\ UNCHANGED <<config, twin, store, returned, parser, direct, game>>

Backtrack ==
    /\ At(Cur, "undo")
    /\ Become(BacktrackStep(Cur))
    /\ UNCHANGED <<config, twin, store, returned, parser, direct, game>>

Validate ==
    /\ outcome = "returned"
    /\ Become(ValidateStep(Cur))
    /\ UNCHANGED <<config, twin, store, returned, parser, direct, game>>

Next ==
    \/ Goal
    \/ Select
    \/ Try
    \/ Conflict
    \/ Assign
    \/ Infer
    \/ InferFail
    \/ ReturnNone
    \/ Backtrack
    \/ Validate

Spec == Init /\ [][Next]_vars

---------------------------------------------------------------------------
(* Vocabulary of the properties *)

\* backtracking_search has returned or raised
Finished == outcome \in {"solution", "none", "invalid", "overflow"}

\* The positions of the trace holding an event of one of the kinds
EventsOf(kinds) == {i \in DOMAIN trace : trace[i].event \in kinds}

\* ASSIGN events minus BACKTRACK events among the first n events
Balance(n) ==
    Cardinality({i \in 1..n : trace[i].event = "ASSIGN"})
  - Cardinality({i \in 1..n : trace[i].event = "BACKTRACK"})

\* f gives neighboring regions different values
Proper(f) ==
    \A v \in Range(variables) : \A w \in Range(neighbors[v]) : f[v] # f[w]

\* Some assignment of domain values satisfies every constraint
Colorable ==
    \E f \in [Range(variables) -> UNION {Range(domains[v]) : v \in Range(variables)}] :
        /\ \A v \in Range(variables) : f[v] \in Range(domains[v])
        /\ Proper(f)

NoNeighbors == \A v \in Range(variables) : neighbors[v] = <<>>
NumColors == Len(domains[variables[1]])
IsCycle4 == Len(variables) = 4 /\ neighbors = Cycle4 /\ NumColors = 2
IsCycle5 == Len(variables) = 5 /\ neighbors = Cycle5 /\ NumColors = 2
IsTriangle == Len(variables) = 3 /\ neighbors = Triangle /\ NumColors = 2
IsDetour == Len(variables) = 4 /\ neighbors = Detour /\ NumColors = 2

---------------------------------------------------------------------------
(* Claims *)

\* C1: an assignment returned by backtracking_search, under any selector,
\* value orderer, inference and tie-break, has an entry for exactly the
\* problem's variables, each value from that variable's original domain, and
\* neighboring variables have different values.
C1_ReturnedAssignmentIsProper ==
    outcome = "solution" =>
        /\ \A v \in Names : (result[1][v] # None) <=> (v \in Range(variables))
        /\ \A v \in Range(variables) : result[1][v] \in Range(domains[v])
        /\ Proper(result[1])

\* A solution of the detour problem was returned under mrv
C1_Witness ==
    /\ outcome = "solution"
    /\ IsDetour
    /\ select_unassigned_variable = "mrv"

\* C2: on a symmetric neighbor graph that has a proper coloring the search
\* never returns None (nor fails the sanity check): unless the trace cap is
\* hit it returns a solution, whatever the strategies and tie-breaks.
C2_ColorableIsSolved ==
    (outcome \in {"none", "invalid"} \/ (outcome = "returned" /\ result = <<>>))
        => ~(Symmetric /\ Colorable)

\* A colorable problem was solved although forward checking failed on the
\* way and the pruning was rolled back
C2_Witness ==
    /\ Symmetric /\ Colorable
    /\ outcome = "solution"
    /\ inference = "forward_checking"
    /\ EventsOf({"INFER_FAIL"}) # {}
    /\ EventsOf({"BACKTRACK"}) # {}

\* C3: on the cycle of 5 variables with 2 labels the search never returns an
\* assignment and never raises the internal-invariant error; when it ends
\* without hitting the trace cap it has returned None, for every tie-break.
C3_OddCycleTwoLabelsNone ==
    IsCycle5 =>
        /\ result = <<>>
        /\ outcome \notin {"solution", "invalid"}
        /\ (Finished /\ max_steps = <<>>) => outcome = "none"

\* The 5-cycle search under mrv ended with None
C3_Witness ==
    /\ IsCycle5
    /\ select_unassigned_variable = "mrv"
    /\ outcome = "none"

\* C4: the 4-cycle with labels {R,G} under mrv, lcv and forward_checking:
\* every run that returns returns one of the two alternating colorings, and
\* no INFER_FAIL event is ever in the trace.
C4_FourCycleAlternates ==
    (/\ IsCycle4
     /\ select_unassigned_variable = "mrv"
     /\ order_domain_values = "lcv"
     /\ inference = "forward_checking") =>
        /\ EventsOf({"INFER_FAIL"}) = {}
        /\ outcome \notin {"none", "invalid"}
        /\ outcome = "solution" =>
              \/ result[1] = [NoAssignment EXCEPT !["A"] = "R", !["B"] = "G",
                                                  !["C"] = "R", !["D"] = "G"]
              \/ result[1] = [NoAssignment EXCEPT !["A"] = "G", !["B"] = "R",
                                                  !["C"] = "G", !["D"] = "R"]

\* The 4-cycle was solved with A colored G: a tie-break chose B or D first
C4_Witness ==
    /\ IsCycle4
    /\ select_unassigned_variable = "mrv"
    /\ order_domain_values = "lcv"
    /\ inference = "forward_checking"
    /\ tracing
    /\ outcome = "solution"
    /\ result[1]["A"] = "G"

\* C5: on three mutually adjacent variables with 2 labels no GOAL event is
\* logged and no assignment is returned, and when the search returns None the
\* trace already holds a CONFLICT or an INFER_FAIL event.
C5_TriangleTwoLabels ==
    IsTriangle =>
        /\ EventsOf({"GOAL"}) = {}
        /\ outcome \notin {"solution", "invalid"}
        /\ (Finished /\ max_steps = <<>>) => outcome = "none"
        /\ (tracing /\ result = <<>> /\ outcome \in {"returned", "none"}) =>
              EventsOf({"CONFLICT", "INFER_FAIL"}) # {}

\* The triangle search returned None with dead ends in the trace
C5_Witness ==
    /\ IsTriangle
    /\ tracing
    /\ outcome = "none"
    /\ EventsOf({"CONFLICT", "INFER_FAIL"}) # {}

\* C6: when every neighbor list is empty the search logs no CONFLICT,
\* INFER_FAIL or BACKTRACK event, does not fail, and the solution gives
\* every variable the first value of its original domain, under either value
\* orderer and whatever order the variables are selected in.
C6_NoNeighborsFirstValue ==
    NoNeighbors =>
        /\ EventsOf({"CONFLICT", "INFER_FAIL", "BACKTRACK"}) = {}
        /\ outcome \notin {"none", "invalid"}
        /\ outcome = "solution" =>
              \A v \in Range(variables) : result[1][v] = domains[v][1]

\* Three unconstrained regions with three labels were solved under mrv and
\* lcv, the last region of the list being assigned first
C6_Witness ==
    /\ NoNeighbors
    /\ Len(variables) = 3 /\ NumColors = 3
    /\ select_unassigned_variable = "mrv"
    /\ order_domain_values = "lcv"
    /\ tracing
    /\ outcome = "solution"
    /\ trace[1].var = "C"

---------------------------------------------------------------------------
(* The pruning API of a CSP, called directly *)

\* The values a caller passes: the region's own and one the palette lacks
Offered(var) ==
    Range(domains[var]) \cup {DOMAIN_LETTERS[Len(domains[var]) + 1]}

InitStore ==
    /\ InitConfig
    \* The pruning API reads no neighbor list: one or two regions with one or
    \* two labels, no neighbors
    /\ Len(variables) <= 2 /\ Len(domains[variables[1]]) <= 2
    /\ \A v \in Range(variables) : neighbors[v] = <<>>
    /\ select_unassigned_variable = "mrv"
    /\ order_domain_values = "lcv"
    /\ inference = "forward_checking"
    /\ ~tracing
    /\ curr_domains = FreshSolve.curr_domains
    /\ nassigns = FreshSolve.nassigns
    /\ assignment = FreshSolve.assignment
    /\ stack = FreshSolve.stack
    /\ trace = FreshSolve.trace
    /\ step = FreshSolve.step
    /\ outcome = FreshSolve.outcome
    /\ result = FreshSolve.result
    /\ twin = FreshSolve
    /\ store = IdleStore
    /\ NoDriver
    /\ NoGame

\* prune(var, value, removals) with a list the caller then drops: a working
\* domain loses a value for good
StoreDrop ==
    /\ ~store.open
    /\ store.drops < MaxDrops
    /\ \E var \in Range(variables) : \E value \in Offered(var) :
          store' = [store EXCEPT
              !.curr_domains =
                  prune(support_pruning(store.curr_domains), var, value, <<>>).curr_domains,
              !.last = <<>>, !.drops = store.drops + 1]
    /\ UNCHANGED <<config, engine, twin, returned, parser, direct, game>>

\* removals = suppose(var, value)
StoreSuppose ==
    /\ ~store.open
    /\ \E var \in Range(variables) : \E value \in Offered(var) :
          LET s == suppose(store.curr_domains, var, value)
          IN  store' = [curr_domains |-> s.curr_domains, open |-> TRUE,
                        removals |-> s.removals,
                        before |-> AllChoices(store.curr_domains),
                        once |-> Count(choices(store.curr_domains, var), value) = 1,
                        last |-> <<>>, drops |-> store.drops, prunes |-> 0]
    /\ UNCHANGED <<config, engine, twin, returned, parser, direct, game>>

\* prune(var, value, removals) on the list suppose returned
StorePrune ==
    /\ store.open
    /\ store.prunes < MaxPrunes
    /\ \E var \in Range(variables) : \E value \in Offered(var) :
          LET q == prune(store.curr_domains, var, value, store.removals)
          IN  store' = [store EXCEPT !.curr_domains = q.curr_domains,
                                     !.removals = q.removals,
                                     !.prunes = store.prunes + 1]
    /\ UNCHANGED <<config, engine, twin, returned, parser, direct, game>>

\* restore(removals)
StoreRestore ==
    /\ store.open
    /\ LET cd == restore(store.curr_domains, store.removals)
       IN  store' = [curr_domains |-> cd, open |-> FALSE, removals |-> <<>>,
                     before |-> <<>>, once |-> FALSE,
                     drops |-> store.drops, prunes |-> 0,
                     last |-> <<[before |-> store.before, after |-> AllChoices(cd),
                                 once |-> store.once,
                                 removals |-> store.removals]>>]
    /\ UNCHANGED <<config, engine, twin, returned, parser, direct, game>>

NextStore ==
    \/ StoreDrop
    \/ StoreSuppose
    \/ StorePrune
    \/ StoreRestore

SpecStore == InitStore /\ [][NextStore]_vars

\* s and t hold the same values, each as often
SameBag(s, t) == \A x \in Letters : Count(s, x) = Count(t, x)

\* The round trip the latest restore closed left every region's choices as
\* they were before suppose
RoundTripExact ==
    \A v \in Range(variables) :
        SameBag(store.last[1].before[v], store.last[1].after[v])

\* C7 as stated: suppose(var, value), any prune calls on its log, then restore
\* of that log leave every working domain with the same values, each as often,
\* as before suppose, for any working-domain state.
C7_RoundTripAnyValue == store.last # <<>> => RoundTripExact

\* C7 amended: the same, for a value that occurs exactly once in var's
\* choices when suppose is called.
C7_RoundTripValueInDomain ==
    (store.last # <<>> /\ store.last[1].once) => RoundTripExact

\* A round trip was closed whose log held values of two regions, the second
\* pruned after suppose, the supposed value being one of the region's choices
C7_Witness ==
    /\ store.last # <<>>
    /\ store.last[1].once
    /\ \E i, j \in DOMAIN store.last[1].removals :
          store.last[1].removals[i][1] # store.last[1].removals[j][1]

---------------------------------------------------------------------------
(* Two solves of equal, freshly constructed problems, step by step *)

InitTwin ==
    /\ Init
    /\ select_unassigned_variable = "first_unassigned_variable"

\* Each solve takes one of its possible steps
TwinStep ==
    /\ \E e1 \in Successors(Cur), e2 \in Successors(twin) :
          Become(e1) /\ twin' = e2
    /\ UNCHANGED <<config, store, returned, parser, direct, game>>

SpecTwin == InitTwin /\ [][TwinStep]_vars

---------------------------------------------------------------------------
(* Claims about the trace *)

\* C8: in the full trace of a run that did not overflow, at every prefix the
\* number of ASSIGN events minus the number of BACKTRACK events equals the
\* size of the last event's assignment snapshot; over the whole trace it is
\* the number of variables when a solution is returned and zero when the
\* search returns None.
C8_AssignBacktrackBalance ==
    tracing =>
        /\ \A n \in DOMAIN trace : Balance(n) = DictLen(trace[n].assignment)
        /\ outcome = "solution" => Balance(Len(trace)) = Len(variables)
        /\ outcome = "none" => Balance(Len(trace)) = 0

\* A traced search returned a solution after at least one BACKTRACK
C8_Witness ==
    /\ tracing
    /\ outcome = "solution"
    /\ EventsOf({"BACKTRACK"}) # {}
    /\ Balance(Len(trace)) = Len(variables)

\* A traced search returned None, fully unwound
C8_WitnessNone ==
    /\ tracing
    /\ outcome = "none"
    /\ EventsOf({"BACKTRACK"}) # {}
    /\ Balance(Len(trace)) = 0

\* C10: with a trace and a cap max_steps the trace never holds more than
\* max_steps events; the search is aborted by the error exactly when it has
\* tried to log event max_steps + 1, GOAL included, and then nothing is
\* returned; as long as it has not, every event logged is in the trace.
C10_TraceCap ==
    (tracing /\ max_steps # <<>>) =>
        /\ Len(trace) <= max_steps[1]
        /\ step <= max_steps[1] + 1
        /\ (step > max_steps[1]) <=> (outcome = "overflow")
        /\ outcome = "overflow" => result = <<>>
        /\ outcome # "overflow" => Len(trace) = step

\* The cap was hit by the GOAL event of a complete assignment
C10_Witness ==
    /\ tracing /\ max_steps # <<>>
    /\ outcome = "overflow"
    /\ stack # <<>> /\ stack[Len(stack)].pc = "enter"
    /\ DictLen(assignment) = Len(variables)
    /\ Len(trace) = max_steps[1]

---------------------------------------------------------------------------
(* Claims about the working domains *)

\* s can be obtained from t by deleting elements
RECURSIVE IsSubsequence(_, _)
IsSubsequence(s, t) ==
    IF s = <<>> THEN TRUE
    ELSE IF t = <<>> THEN FALSE
    ELSE IF Head(s) = Head(t) THEN IsSubsequence(Tail(s), Tail(t))
    ELSE IsSubsequence(s, Tail(t))

\* s holds only values of t, none more often than t does
SubBag(s, t) ==
    /\ Range(s) \subseteq Range(t)
    /\ \A x \in Range(s) : Count(s, x) <= Count(t, x)

\* C11 as stated: once working domains exist, every variable's working domain
\* is a subsequence of its original domain: only its values, none more often,
\* and in the original relative order, also after rollbacks.
C11_WorkingDomainSubsequence ==
    ~IsNone(curr_domains) =>
        \A v \in Range(variables) : IsSubsequence(curr_domains[v], domains[v])

\* C11 amended: once working domains exist, every variable's working domain
\* holds only values of its original domain, none more often than the original
\* does; the relative order is not kept across rollbacks.
C11_WorkingDomainSubBag ==
    ~IsNone(curr_domains) =>
        \A v \in Range(variables) : SubBag(curr_domains[v], domains[v])

\* After a rollback some region has all its values back, in another order
\* than the original, while another region's domain is cut down
C11_Witness ==
    /\ ~IsNone(curr_domains)
    /\ EventsOf({"BACKTRACK"}) # {}
    /\ \E v, w \in Range(variables) :
          /\ Len(curr_domains[v]) = Len(domains[v])
          /\ curr_domains[v] # domains[v]
          /\ Len(curr_domains[w]) < Len(domains[w])

---------------------------------------------------------------------------
(* Claims about rollback *)

\* The frame on top has just finished a value of its loop; with a trace, by
\* logging BACKTRACK (without one, by BACKTRACK or by CONFLICT)
JustBacktracked ==
    /\ At(Cur, "loop")
    /\ Top(Cur).idx > 1
    /\ tracing => trace[Len(trace)].event = "BACKTRACK"

\* The position of the TRY event that event i of the trace answers: the
\* latest TRY of the same variable and value before it (0 if there is none)
MatchingTry(i) ==
    LET S == {j \in 1..(i - 1) :
                 /\ trace[j].event = "TRY"
                 /\ trace[j].var = trace[i].var
                 /\ trace[j].val = trace[i].val}
    IN  IF S = {} THEN 0 ELSE CHOOSE j \in S : \A k \in S : k <= j

\* Every region's choices hold the same set of values in c and d
SameChoiceSets(c, d) == \A v \in Range(variables) : Range(c[v]) = Range(d[v])

\* C12: at every BACKTRACK event for (var, value), after an inference failure
\* or a failed recursive call, the assignment equals the one at the matching
\* TRY (var unassigned again) and every region's choices hold the same set of
\* values as at that TRY; when the search has returned None the assignment is
\* empty and every working domain equals the original domain as a set.
C12_RollbackOnFailure ==
    /\ JustBacktracked =>
          /\ assignment = Top(Cur).at_try[1].assignment
          /\ assignment[Top(Cur).var] = None
          /\ SameChoiceSets(AllChoices(curr_domains), Top(Cur).at_try[1].choices)
    /\ \A i \in EventsOf({"BACKTRACK"}) :
          /\ MatchingTry(i) # 0
          /\ trace[i].assignment = trace[MatchingTry(i)].assignment
          /\ trace[i].assignment[trace[i].var] = None
    /\ (outcome = "none" \/ (outcome = "returned" /\ result = <<>>)) =>
          /\ assignment = NoAssignment
          /\ SameChoiceSets(AllChoices(curr_domains), domains)

\* Two BACKTRACK events in a row after an INFER_FAIL: a value was rolled back
\* because the recursive call failed, a deeper one because inference failed,
\* and at the TRY some region's choices were already cut down
C12_Witness ==
    /\ JustBacktracked
    /\ tracing
    /\ Len(trace) > 2
    /\ trace[Len(trace) - 1].event = "BACKTRACK"
    /\ EventsOf({"INFER_FAIL"}) # {}
    /\ \E v \in Range(variables) :
          Len(Top(Cur).at_try[1].choices[v]) < Len(domains[v])

---------------------------------------------------------------------------
(* Claims about the assignment's size *)

\* The number of calls of backtrack that enclose the running one
RecursionDepth == Len(stack) - 1

\* The running call has assigned its variable and not yet unassigned it or
\* called backtrack again (lines 297-353)
HoldsValue == Top(Cur).pc \in {"assigned", "inferfail", "undo"}

\* The assignment has entries for variables of the problem only, at most as
\* many as there are variables
AssignmentWithinVariables ==
    /\ \A v \in Names : assignment[v] # None => v \in Range(variables)
    /\ DictLen(assignment) \in 0..Len(variables)

\* Every event's depth is the size of its snapshot; ASSIGN is one deeper than
\* its TRY and holds var -> val; BACKTRACK is as deep as its TRY and lacks var
EventDepths ==
    /\ \A i \in DOMAIN trace : trace[i].depth = DictLen(trace[i].assignment)
    /\ \A i \in EventsOf({"ASSIGN"}) :
          /\ MatchingTry(i) # 0
          /\ trace[i].depth = trace[MatchingTry(i)].depth + 1
          /\ trace[i].assignment[trace[i].var] = trace[i].val
    /\ \A i \in EventsOf({"BACKTRACK"}) :
          /\ MatchingTry(i) # 0
          /\ trace[i].depth = trace[MatchingTry(i)].depth
          /\ trace[i].assignment[trace[i].var] = None

\* C13 as stated: at every point of a solve the assignment holds each variable
\* at most once, its size is between 0 and the number of variables and equals
\* the current recursion depth; every event's depth is the size of its
\* snapshot, ASSIGN is one deeper than its TRY and contains var -> val,
\* BACKTRACK has the depth of its TRY and does not contain var.
C13_SizeIsRecursionDepth ==
    /\ AssignmentWithinVariables
    /\ (outcome = "running" /\ stack # <<>>) =>
          DictLen(assignment) = RecursionDepth
    /\ EventDepths

\* C13 amended: the same, except that the size equals the recursion depth
\* when a call of backtrack starts and between the values of its loop, and is
\* one greater from the call's assign to its recursive call or its unassign.
C13_SizeIsDepthOrOneMore ==
    /\ AssignmentWithinVariables
    /\ (outcome = "running" /\ stack # <<>>) =>
          DictLen(assignment) = RecursionDepth + (IF HoldsValue THEN 1 ELSE 0)
    /\ EventDepths

\* A nested call has returned None to a call that still holds its value,
\* after an earlier BACKTRACK
C13_Witness ==
    /\ tracing
    /\ At(Cur, "undo")
    /\ RecursionDepth >= 1
    /\ DictLen(assignment) = RecursionDepth + 1
    /\ EventsOf({"BACKTRACK"}) # {}
    /\ trace[Len(trace)].event = "BACKTRACK"

---------------------------------------------------------------------------
(* solve_map_coloring: the solve with an event filter, next to the same call
   without one *)

\* The event kinds log is called with
Kinds == {"TRY", "CONFLICT", "ASSIGN", "INFER_FAIL", "BACKTRACK", "GOAL"}

\* The filters passed as log_events: None, or a set of kinds
Filters ==
    {<<>>, <<{}>>, <<{"GOAL"}>>, <<{"ASSIGN", "BACKTRACK"}>>,
     <<{"TRY", "CONFLICT", "INFER_FAIL"}>>, <<Kinds>>}

\* Mutant of Filtered: the events that are kept are numbered anew
Filtered_renumbered(t, filter) ==
    IF filter = <<>> THEN t
    ELSE LET Kept(ev) == ev.event \in filter[1]
             kept == SelectSeq(t, Kept)
         IN  [i \in DOMAIN kept |-> [kept[i] EXCEPT !.step = i]]

\* coloring_map.py lines 161-162: [t for t in trace if t.get("event") in log_events]
Filtered(t, filter) ==
    IF filter = <<>> THEN t
    ELSE LET Kept(ev) == ev.event \in filter[1] IN SelectSeq(t, Kept)

\* What solve_map_coloring returns for the solve e: (solution, trace)
solve_map_coloring_return(e, filter) ==
    [solution |-> e.result, trace |-> Filtered(e.trace, filter)]

\* solve_map_coloring always solves with mrv, lcv and forward_checking and
\* passes a trace list; the twin is the same call with log_events = None
InitFilter ==
    /\ InitConfig
    /\ select_unassigned_variable = "mrv"
    /\ order_domain_values = "lcv"
    /\ inference = "forward_checking"
    /\ tracing
    /\ log_events \in Filters
    /\ curr_domains = FreshSolve.curr_domains
    /\ nassigns = FreshSolve.nassigns
    /\ assignment = FreshSolve.assignment
    /\ stack = FreshSolve.stack
    /\ trace = FreshSolve.trace
    /\ step = FreshSolve.step
    /\ outcome = FreshSolve.outcome
    /\ result = FreshSolve.result
    /\ twin = FreshSolve
    /\ store = IdleStore
    /\ returned = <<>>
    /\ text = <<>>
    /\ graph = <<>>
    /\ inferred = <<>>
    /\ NoGame

\* Both calls take a step of backtracking_search; where mrv breaks a tie,
\* random.choice draws the same for both
FilterSolve ==
    /\ \E e1 \in Successors(Cur), e2 \in Successors(twin) :
          /\ (At(Cur, "enter") /\ ~Complete(Cur) /\ At(twin, "enter") /\ ~Complete(twin))
                => Top(e1).var = Top(e2).var
          /\ Become(e1)
          /\ twin' = e2
    /\ UNCHANGED <<config, store, returned, parser, direct, game>>

\* Both calls return: lines 160-164
FilterReturn ==
    /\ returned = <<>>
    /\ outcome \in {"solution", "none"}
    /\ twin.outcome \in {"solution", "none"}
    /\ returned' = <<[call |-> solve_map_coloring_return(Cur, log_events),
                      plain |-> solve_map_coloring_return(twin, <<>>)]>>
    /\ UNCHANGED <<config, engine, twin, store, parser, direct, game>>

NextFilter ==
    \/ FilterSolve
    \/ FilterReturn

SpecFilter == InitFilter /\ [][NextFilter]_vars

\* The positions of t whose event kind is in F
KeptPositions(t, F) == {i \in DOMAIN t : t[i].event \in F}

\* r is t cut down to the events whose kind is in F, in t's order
IsKeptSubsequence(r, t, F) ==
    /\ Len(r) = Cardinality(KeptPositions(t, F))
    /\ \A k \in DOMAIN r :
          \E i \in KeptPositions(t, F) :
              /\ Cardinality({j \in KeptPositions(t, F) : j <= i}) = k
              /\ r[k] = t[i]

\* C14: for every filter and the same tie-break choices the solve with the
\* filter ends as the solve without it, with the same solution or the same
\* trace overflow, and the trace it returns is the unfiltered trace cut down
\* to the events whose kind is in the filter, step numbers unchanged.
C14_FilterIndependence ==
    /\ outcome = twin.outcome
    /\ result = twin.result
    /\ returned # <<>> =>
          /\ returned[1].call.solution = returned[1].plain.solution
          /\ log_events = <<>> => returned[1].call.trace = returned[1].plain.trace
          /\ log_events # <<>> =>
                IsKeptSubsequence(returned[1].call.trace, returned[1].plain.trace,
                                  log_events[1])

\* A solve filtered to ASSIGN and BACKTRACK returned a trace with a BACKTRACK
\* event, shorter than the unfiltered one
C14_Witness ==
    /\ returned # <<>>
    /\ log_events = <<{"ASSIGN", "BACKTRACK"}>>
    /\ \E i \in DOMAIN returned[1].call.trace :
          /\ returned[1].call.trace[i].event = "BACKTRACK"
          /\ returned[1].call.trace[i].step > i
    /\ Len(returned[1].call.trace) < Len(returned[1].plain.trace)

\* A filtered solve was aborted by the trace cap, as the unfiltered one
C14_WitnessOverflow ==
    /\ log_events = <<{"GOAL"}>>
    /\ outcome = "overflow"
    /\ twin.outcome = "overflow"

---------------------------------------------------------------------------
(* Claims about the heuristics *)

\* The number of currently-legal values of v: the size of its working domain
\* when working domains exist, else the number of original values without a
\* conflict under the partial assignment
LegalCount(v, asg, cd) ==
    IF IsNone(cd)
    THEN Len(domains[v])
         - Cardinality({i \in DOMAIN domains[v] : nconflicts(v, domains[v][i], asg) > 0})
    ELSE Len(cd[v])

\* The unassigned variables with the least number of legal values
MinimalUnassigned(asg, cd) ==
    {v \in Range(variables) :
        /\ asg[v] = None
        /\ \A w \in Range(variables) :
              asg[w] = None => LegalCount(v, asg, cd) <= LegalCount(w, asg, cd)}

\* The frame on top has selected its variable and not yet tried a value
JustSelected == At(Cur, "loop") /\ Top(Cur).idx = 1

\* C15: mrv can return exactly the unassigned variables whose number of
\* currently-legal values is least, that number being the working-domain size
\* when working domains exist and else the number of original values without
\* conflict; the variable a call under mrv selected is one of them.
C15_MrvMinimal ==
    (outcome = "running" /\ ~Complete(Cur)) =>
        /\ mrv(assignment, curr_domains) = MinimalUnassigned(assignment, curr_domains)
        /\ mrv(assignment, <<>>) = MinimalUnassigned(assignment, <<>>)
        /\ (select_unassigned_variable = "mrv" /\ JustSelected) =>
              Top(Cur).var \in MinimalUnassigned(assignment, curr_domains)

\* Under mrv a variable was selected that is not the first unassigned one,
\* tied with another for the least number of legal values while a third
\* unassigned variable had more
C15_Witness ==
    /\ select_unassigned_variable = "mrv"
    /\ JustSelected
    /\ ~IsNone(curr_domains)
    /\ Top(Cur).var # first_unassigned_variable(assignment)
    /\ Cardinality(MinimalUnassigned(assignment, curr_domains)) >= 2
    /\ Cardinality(MinimalUnassigned(assignment, curr_domains))
          < Len(unassigned(assignment))

\* Without working domains, under a partial assignment, the unassigned
\* variables differ in their number of values without conflict
C15_WitnessNoDomains ==
    /\ outcome = "running"
    /\ DictLen(assignment) >= 1
    /\ mrv(assignment, <<>>) # {}
    /\ Cardinality(mrv(assignment, <<>>)) < Len(unassigned(assignment))

\* The first position of x in s
Pos(s, x) == CHOOSE i \in DOMAIN s : s[i] = x /\ \A k \in 1..(i - 1) : s[k] # x

\* r is a permutation of the choices of var, ascending in the conflicts each
\* value has under asg, values with equal conflicts in the order ref has them
LcvOrdered(r, var, asg, cd, ref) ==
    /\ SameBag(r, choices(cd, var))
    /\ \A i, j \in DOMAIN r :
          i < j =>
              /\ nconflicts(var, r[i], asg) <= nconflicts(var, r[j], asg)
              /\ nconflicts(var, r[i], asg) = nconflicts(var, r[j], asg)
                    => Pos(ref, r[i]) < Pos(ref, r[j])

\* C16 as stated: what lcv returns to the search is a permutation of
\* current_choices(var) ascending in conflict_count, values with equal counts
\* in the relative order of the variable's original domain, also after
\* rollbacks.
C16_LcvTiesInOriginalOrder ==
    (order_domain_values = "lcv" /\ JustSelected) =>
        LcvOrdered(Top(Cur).values, Top(Cur).var, assignment, curr_domains,
                   domains[Top(Cur).var])

\* C16 amended: lcv returns, for every unassigned variable and to the search,
\* a permutation of current_choices(var) ascending in conflict_count, values
\* with equal counts in the relative order current_choices(var) has them,
\* which after a rollback can differ from the original domain's.
C16_LcvTiesInChoicesOrder ==
    outcome = "running" =>
        /\ \A v \in Range(unassigned(assignment)) :
              LcvOrdered(lcv(v, assignment, curr_domains), v, assignment,
                         curr_domains, choices(curr_domains, v))
        /\ (order_domain_values = "lcv" /\ JustSelected) =>
              LcvOrdered(Top(Cur).values, Top(Cur).var, assignment, curr_domains,
                         choices(curr_domains, Top(Cur).var))

\* Under lcv a variable was selected after a rollback had reordered its
\* choices; lcv moved a value with fewer conflicts to the front
C16_Witness ==
    /\ order_domain_values = "lcv"
    /\ JustSelected
    /\ ~IsNone(curr_domains)
    /\ Len(Top(Cur).values) >= 2
    /\ Top(Cur).values # curr_domains[Top(Cur).var]
    /\ ~IsSubsequence(curr_domains[Top(Cur).var], domains[Top(Cur).var])

---------------------------------------------------------------------------
(* parse_neighbors: a str is a sequence of characters, a region name too; the
   dict it builds is a function from its keys to lists of names *)

\* The longest text that is parsed
MaxText == 6

\* The characters of the texts, in the order of their code points
CharOrder == <<" ", ":", ";", "A", "B">>
Chars == Range(CharOrder)
Code(c) == CHOOSE i \in DOMAIN CharOrder : CharOrder[i] = c

Texts == UNION {[1..n -> Chars] : n \in 0..MaxText}

\* str.split(sep) for a one-character sep: the pieces between the separators,
\* empty ones included
RECURSIVE Split(_, _)
Split(s, sep) ==
    IF sep \notin Range(s) THEN <<s>>
    ELSE LET i == Pos(s, sep)
         IN  <<SubSeq(s, 1, i - 1)>> \o Split(SubSeq(s, i + 1, Len(s)), sep)

RECURSIVE LStrip(_)
LStrip(s) == IF s # <<>> /\ Head(s) = " " THEN LStrip(Tail(s)) ELSE s

RECURSIVE RStrip(_)
RStrip(s) ==
    IF s # <<>> /\ s[Len(s)] = " " THEN RStrip(SubSeq(s, 1, Len(s) - 1)) ELSE s

\* str.strip()
Strip(s) == RStrip(LStrip(s))

\* str.split() without argument: the words between runs of whitespace
SplitWords(s) ==
    LET NonEmpty(w) == w # <<>> IN SelectSeq(Split(s, " "), NonEmpty)

\* str comparison: by code point, a proper prefix first
RECURSIVE LexLess(_, _)
LexLess(s, t) ==
    IF t = <<>> THEN FALSE
    ELSE IF s = <<>> THEN TRUE
    ELSE IF Code(Head(s)) # Code(Head(t)) THEN Code(Head(s)) < Code(Head(t))
    ELSE LexLess(Tail(s), Tail(t))

\* sorted(set(v))
RECURSIVE SortedNames(_)
SortedNames(S) ==
    IF S = {} THEN <<>>
    ELSE LET m == CHOOSE x \in S : \A y \in S \ {x} : LexLess(x, y)
         IN  <<m>> \o SortedNames(S \ {m})

\* graph[k] of a defaultdict(list), read
Get(g, k) == IF k \in DOMAIN g THEN g[k] ELSE <<>>

\* graph[k].append(x): the key is created when absent
AppendTo(g, k, x) ==
    [y \in DOMAIN g \cup {k} |-> IF y = k THEN Append(Get(g, k), x) ELSE g[y]]

\* lines 411-413: for B in Aneigh.split(): both directions are appended
RECURSIVE AddNeighbors(_, _, _)
AddNeighbors(g, A, Bs) ==
    IF Bs = <<>> THEN g
    ELSE AddNeighbors(AppendTo(AppendTo(g, A, Head(Bs)), Head(Bs), A), A, Tail(Bs))

\* lines 406-413: the loop over specs; an entry without ':' is skipped
RECURSIVE AddSpecs(_, _)
AddSpecs(g, specs) ==
    IF specs = <<>> THEN g
    ELSE LET spec == Head(specs)
         IN  IF ":" \notin Range(spec) THEN AddSpecs(g, Tail(specs))
             ELSE LET i == Pos(spec, ":")
                      A == Strip(SubSeq(spec, 1, i - 1))
                      Aneigh == SubSeq(spec, i + 1, Len(spec))
                  IN  AddSpecs(AddNeighbors(g, A, SplitWords(Aneigh)), Tail(specs))

\* line 404: [spec.strip() for spec in neighbors.split(';') if spec.strip()]
Specs(t) ==
    LET pieces == Split(t, ";")
        stripped == [i \in DOMAIN pieces |-> Strip(pieces[i])]
        NonEmpty(w) == w # <<>>
    IN  SelectSeq(stripped, NonEmpty)

\* parse_neighbors(neighbors)
parse_neighbors(t) ==
    LET g == AddSpecs(<<>>, Specs(t))
    IN  [k \in DOMAIN g |-> SortedNames(Range(g[k]))]

\* parse_neighbors is about to be called with text; no CSP is built from it
InitParse ==
    /\ text \in Texts
    /\ graph = <<>>
    /\ variables = <<>>
    /\ domains = <<>>
    /\ neighbors = <<>>
    /\ select_unassigned_variable = "mrv"
    /\ order_domain_values = "lcv"
    /\ inference = "forward_checking"
    /\ tracing = FALSE
    /\ max_steps = <<>>
    /\ log_events = <<>>
    /\ curr_domains = FreshSolve.curr_domains
    /\ nassigns = FreshSolve.nassigns
    /\ assignment = FreshSolve.assignment
    /\ stack = FreshSolve.stack
    /\ trace = FreshSolve.trace
    /\ step = FreshSolve.step
    /\ outcome = FreshSolve.outcome
    /\ result = FreshSolve.result
    /\ twin = FreshSolve
    /\ store = IdleStore
    /\ returned = <<>>
    /\ inferred = <<>>
    /\ NoGame

\* The call returns its dict
ParseNeighbors ==
    /\ graph = <<>>
    /\ graph' = <<parse_neighbors(text)>>
    /\ UNCHANGED <<text, config, engine, twin, store, returned, direct, game>>

NextParse == ParseNeighbors

SpecParse == InitParse /\ [][NextParse]_vars

\* The entries of t that have the separator
WellFormedEntries(t) ==
    {Specs(t)[i] : i \in {j \in DOMAIN Specs(t) : ":" \in Range(Specs(t)[j])}}

\* The regions an entry names: the one before the separator and those after it
NamedIn(spec) ==
    LET i == Pos(spec, ":")
    IN  ({Strip(SubSeq(spec, 1, i - 1))} \ {<<>>})
            \cup Range(SplitWords(SubSeq(spec, i + 1, Len(spec))))

\* B is in g[A] iff A is in g[B]
SymmetricGraph(g) ==
    \A a \in DOMAIN g : \A b \in Range(g[a]) :
        b \in DOMAIN g /\ a \in Range(g[b])

\* Every neighbor list is strictly ascending
SortedLists(g) ==
    \A a \in DOMAIN g : \A i, j \in DOMAIN g[a] : i < j => LexLess(g[a][i], g[a][j])

\* C17: for every text, parse_neighbors returns a symmetric graph whose
\* neighbor lists are duplicate-free and sorted and in which every region
\* named in a well-formed entry, on either side of the separator, is a key.
C17_ParsedGraph ==
    graph # <<>> =>
        /\ SymmetricGraph(graph[1])
        /\ SortedLists(graph[1])
        /\ \A spec \in WellFormedEntries(text) : NamedIn(spec) \subseteq DOMAIN graph[1]

---------------------------------------------------------------------------
(* Claims about the order of events *)

\* Event i + 1 is of the given kind, for the variable and value of event i
FollowedBy(i, kind) ==
    /\ trace[i + 1].event = kind
    /\ trace[i + 1].var = trace[i].var
    /\ trace[i + 1].val = trace[i].val

LastEvent == trace[Len(trace)]

\* C18: every TRY event for (var, value) is immediately followed by CONFLICT
\* for the same pair exactly when conflict_count(var, value, assignment) is not
\* zero and otherwise by ASSIGN for the same pair; a CONFLICT changes neither
\* the assignment nor any domain; every INFER_FAIL event is immediately
\* followed by the BACKTRACK of the same pair. (An event that the trace cap
\* aborts is not logged: the run ends with the event before it.)
C18_EventOrder ==
    tracing =>
        /\ \A i \in EventsOf({"TRY"}) :
              i < Len(trace) =>
                  IF nconflicts(trace[i].var, trace[i].val, trace[i].assignment) # 0
                  THEN FollowedBy(i, "CONFLICT")
                  ELSE FollowedBy(i, "ASSIGN")
        /\ \A i \in EventsOf({"CONFLICT"}) :
              /\ FollowedBy(i - 1, "CONFLICT")
              /\ trace[i - 1].event = "TRY"
              /\ trace[i].assignment = trace[i - 1].assignment
        /\ (At(Cur, "loop") /\ Top(Cur).idx > 1 /\ LastEvent.event = "CONFLICT") =>
              /\ assignment = Top(Cur).at_try[1].assignment
              /\ AllChoices(curr_domains) = Top(Cur).at_try[1].choices
        /\ \A i \in EventsOf({"INFER_FAIL"}) :
              i < Len(trace) => FollowedBy(i, "BACKTRACK")
        /\ (trace # <<>> /\ LastEvent.event = "TRY") =>
              \/ outcome = "overflow"
              \/ At(Cur, "tried")
        /\ (trace # <<>> /\ LastEvent.event = "INFER_FAIL") =>
              \/ outcome = "overflow"
              \/ At(Cur, "undo")

\* A value was tried and assigned, a later one tried and found in conflict,
\* while working domains existed and some were cut down
C18_Witness ==
    /\ tracing
    /\ At(Cur, "loop") /\ Top(Cur).idx > 1
    /\ LastEvent.event = "CONFLICT"
    /\ EventsOf({"ASSIGN"}) # {}
    /\ ~IsNone(curr_domains)
    /\ \E v \in Range(variables) : Len(curr_domains[v]) < Len(domains[v])

\* An INFER_FAIL event was followed by its BACKTRACK
C18_WitnessInferFail ==
    /\ tracing
    /\ Len(trace) >= 2
    /\ LastEvent.event = "BACKTRACK"
    /\ trace[Len(trace) - 1].event = "INFER_FAIL"

\* At most one GOAL event, and nothing after it
GoalIsLast ==
    /\ Cardinality(EventsOf({"GOAL"})) <= 1
    /\ \A i \in EventsOf({"GOAL"}) : i = Len(trace)

\* C19 as stated: a full trace holds at most one GOAL event; one is present
\* exactly when the search returns a solution; it is the last event and its
\* snapshot is the returned solution.
C19_GoalIffSolution ==
    tracing =>
        /\ GoalIsLast
        /\ Finished => (EventsOf({"GOAL"}) # {} <=> outcome = "solution")
        /\ outcome = "solution" => LastEvent.assignment = result[1]

\* What does hold of GOAL: a trace holds at most one, the last event; one is
\* present exactly when the inner call of backtrack returns an assignment, its
\* snapshot. The search then returns it or, the validation failing, raises
\* the internal-invariant error.
GoalIffAssignmentReturned ==
    tracing =>
        /\ GoalIsLast
        /\ EventsOf({"GOAL"}) # {} <=> result # <<>>
        /\ result # <<>> => LastEvent.assignment = result[1]
        /\ Finished => (EventsOf({"GOAL"}) # {} <=> outcome \in {"solution", "invalid"})

\* The positions of the ASSIGN events among the first n events that no
\* BACKTRACK has undone, oldest first, each BACKTRACK undoing the most recent
RECURSIVE OpenAssigns(_)
OpenAssigns(n) ==
    IF n = 0 THEN <<>>
    ELSE LET open == OpenAssigns(n - 1)
         IN  IF trace[n].event = "ASSIGN" THEN Append(open, n)
             ELSE IF trace[n].event = "BACKTRACK" /\ open # <<>>
                  THEN SubSeq(open, 1, Len(open) - 1)
                  ELSE open

\* The removal log that the commit of frame f produced: suppose and the
\* inference, run on the working domains and the assignment its TRY saw
CommitLog(f) ==
    LET value == f.values[f.idx]
        s == suppose(f.at_try[1].choices, f.var, value)
    IN  Inferred(s.curr_domains, f.var, value,
                 assign(f.var, value, f.at_try[1].assignment), s.removals).removals

\* Every BACKTRACK event is for the variable and value of the most recent
\* ASSIGN event not yet backtracked
ProperlyNested ==
    \A i \in EventsOf({"BACKTRACK"}) :
        /\ OpenAssigns(i - 1) # <<>>
        /\ LET j == OpenAssigns(i - 1)[Len(OpenAssigns(i - 1))]
           IN  trace[j].var = trace[i].var /\ trace[j].val = trace[i].val

\* C20: commits are undone most-recent-first: in every trace each BACKTRACK
\* event is for the variable and value of the most recent ASSIGN not yet
\* backtracked, and the removal log restored when a commit is undone is the
\* one that same commit produced.
C20_LifoUndo ==
    /\ [](tracing => ProperlyNested)
    /\ [][At(Cur, "undo") =>
             curr_domains' = restore(curr_domains, CommitLog(Top(Cur)))]_vars

\* Two commits were open, the inner one was undone first and then the outer
\* one, whose log held values of other regions
C20_Witness ==
    /\ tracing
    /\ JustBacktracked
    /\ Len(trace) > 2
    /\ trace[Len(trace) - 1].event = "BACKTRACK"
    /\ trace[Len(trace) - 1].depth = LastEvent.depth + 1
    /\ \E k \in DOMAIN Top(Cur).removals : Top(Cur).removals[k][1] # Top(Cur).var


---------------------------------------------------------------------------
(* forward_checking called directly: on a CSP whose working domains are
   whatever earlier pruning left, with any assignment, region and value *)

\* Every list of distinct members of S
Arrangements(S) ==
    UNION {{s \in [1..n -> S] : \A i, j \in 1..n : s[i] = s[j] => i = j} :
           n \in 0..Cardinality(S)}

\* Two labels; every graph on three regions, the dicts that are not
\* symmetric, and the one with a region listed under itself
InferProblems ==
    {p \in GeneratedProblems \cup AsymmetricProblems \cup SelfLoopProblems :
        Len(p.colors) = 2 /\ Len(p.variables) >= 2}

InitInfer ==
    /\ \E p \in InferProblems : MapColoringCSP(p)
    /\ select_unassigned_variable = "mrv"
    /\ order_domain_values = "lcv"
    /\ inference = "forward_checking"
    /\ tracing = FALSE
    /\ max_steps = <<>>
    /\ curr_domains \in
          {<<>>} \cup [Range(variables) -> Arrangements(Range(domains[variables[1]]))]
    /\ assignment \in
          {a \in [Names -> Range(domains[variables[1]]) \cup {None}] :
              \A v \in Names \ Range(variables) : a[v] = None}
    /\ nassigns = 0
    /\ stack = <<>>
    /\ trace = <<>>
    /\ step = 0
    /\ outcome = "running"
    /\ result = <<>>
    /\ twin = FreshSolve
    /\ store = IdleStore
    /\ NoDriver
    /\ NoGame

\* ok = forward_checking(csp, var, value, assignment, removals), removals
\* being a list that holds an entry already
ForwardChecking ==
    /\ inferred = <<>>
    /\ \E var \in Range(variables) : \E value \in Range(domains[var]) :
          LET given == <<<<var, DOMAIN_LETTERS[4]>>>>
              r == forward_checking(curr_domains, var, value, assignment, given)
          IN  /\ curr_domains' = r.curr_domains
              /\ inferred' = <<[var |-> var, value |-> value, given |-> given,
                                before |-> AllChoices(curr_domains),
                                ok |-> r.ok, removals |-> r.removals]>>
    /\ UNCHANGED <<config, nassigns, assignment, stack, trace, step, outcome,
                   result, twin, store, returned, parser, game>>

NextInfer == ForwardChecking

SpecInfer == InitInfer /\ [][NextInfer]_vars

\* The neighbors of var that have no entry in the assignment
UnassignedNeighbors(var) ==
    {B \in Range(neighbors[var]) : assignment[B] = None}

\* What the call found in B's working domain, less the values that conflict
\* with (var, value)
WithoutConflicts(c, B) ==
    LET Consistent(b) == constraints(c.var, c.value, B, b)
    IN  SelectSeq(c.before[B], Consistent)

\* What the call appended to the list it was given
Appended(c) == SubSeq(c.removals, Len(c.given) + 1, Len(c.removals))

\* C21: forward_checking(var, value) reports failure exactly when some
\* unassigned neighbor of var is left with an empty working domain; when it
\* reports success every unassigned neighbor's working domain is its previous
\* working domain minus the values conflicting with (var, value), is not
\* empty, and each removed value was appended exactly once to the removal log
\* (whose earlier entries stay).
C21_ForwardChecking ==
    inferred # <<>> =>
        LET c == inferred[1]
        IN  /\ ~c.ok <=> \E B \in UnassignedNeighbors(c.var) : curr_domains[B] = <<>>
            /\ SubSeq(c.removals, 1, Len(c.given)) = c.given
            /\ c.ok =>
                  /\ \A B \in UnassignedNeighbors(c.var) :
                        /\ curr_domains[B] = WithoutConflicts(c, B)
                        /\ curr_domains[B] # <<>>
                        /\ \A b \in Range(c.before[B]) :
                              Count(Appended(c), <<B, b>>) =
                                  IF constraints(c.var, c.value, B, b) THEN 0 ELSE 1
                  /\ \A i \in DOMAIN Appended(c) :
                        /\ Appended(c)[i][1] \in UnassignedNeighbors(c.var)
                        /\ Appended(c)[i][2] \in Range(c.before[Appended(c)[i][1]])

\* A call succeeded after pruning the value from two unassigned neighbors
C21_Witness ==
    /\ inferred # <<>>
    /\ inferred[1].ok
    /\ Len(Appended(inferred[1])) = 2
    /\ Cardinality(UnassignedNeighbors(inferred[1].var)) = 2

\* A call failed: it emptied a neighbor's working domain
C21_WitnessFailure ==
    /\ inferred # <<>>
    /\ ~inferred[1].ok
    /\ Appended(inferred[1]) # <<>>


\* Where in var's neighbor list the call stopped: the first unassigned
\* neighbor whose working domain is empty
FirstEmptied(c) ==
    LET ns == neighbors[c.var]
        Emptied(i) == assignment[ns[i]] = None /\ curr_domains[ns[i]] = <<>>
    IN  CHOOSE i \in DOMAIN ns : Emptied(i) /\ \A j \in 1..(i - 1) : ~Emptied(j)

\* The call left v's working domain as it found it
Untouched(c, v) == curr_domains[v] = c.before[v]

OneStep ==
    inferred # <<>> =>
        \A v \in Range(variables) :
            (assignment[v] # None \/ v \notin Range(neighbors[inferred[1].var]))
                => Untouched(inferred[1], v)

ShortCircuit ==
    (inferred # <<>> /\ ~inferred[1].ok) =>
        LET c == inferred[1]
            ns == neighbors[c.var]
        IN  \A j \in DOMAIN ns :
                /\ (j > FirstEmptied(c) /\ ns[j] \notin Range(SubSeq(ns, 1, FirstEmptied(c))))
                      => Untouched(c, ns[j])
                /\ (j < FirstEmptied(c) /\ assignment[ns[j]] = None)
                      => curr_domains[ns[j]] = WithoutConflicts(c, ns[j])

\* C22: forward_checking never changes the assignment, the original domains
\* or the working domain of a variable that is assigned or is not a direct
\* neighbor of var; and when a neighbor's working domain becomes empty it
\* returns at once: the neighbors later in the neighbor order keep their
\* working domains unpruned (those before it were pruned).
C22_OneStepShortCircuit ==
    /\ [](OneStep /\ ShortCircuit)
    /\ [][assignment' = assignment /\ domains' = domains]_vars

\* A call failed on its first neighbor and left the value it was called with
\* in the working domain of a later, unassigned neighbor
C22_Witness ==
    /\ inferred # <<>>
    /\ ~inferred[1].ok
    /\ LET c == inferred[1]
           ns == neighbors[c.var]
       IN  \E j \in DOMAIN ns :
              /\ j > FirstEmptied(c)
              /\ assignment[ns[j]] = None
              /\ c.value \in Range(curr_domains[ns[j]])


---------------------------------------------------------------------------
(* Claims about forward checking inside the search *)

\* C23: on a symmetric neighbor graph, under every strategy combination, what
\* the inner backtrack call returns passes the validation of
\* backtracking_search: the "Solver returned an invalid assignment" error is
\* never raised.
C23_SymmetricNeverInvalid ==
    Symmetric =>
        /\ outcome # "invalid"
        /\ result # <<>> => is_goal(result[1])

\* No region is listed under itself
NoSelfLoop == \A v \in Range(variables) : v \notin Range(neighbors[v])

\* What does hold: the error is not raised when moreover no region is listed
\* under itself
SimpleGraphNeverInvalid ==
    (Symmetric /\ NoSelfLoop) =>
        /\ outcome # "invalid"
        /\ result # <<>> => is_goal(result[1])

\* backtrack is about to select a region, a commit being under way
SelectingAfterCommit ==
    At(Cur, "enter") /\ ~Complete(Cur) /\ ~IsNone(curr_domains)

\* The values of v's original domain without conflict under the assignment
ZeroConflictValues(v) ==
    {x \in Range(domains[v]) : nconflicts(v, x, assignment) = 0}

\* Every unassigned region's working domain is non-empty and holds exactly
\* the zero-conflict values, so that num_legal_values counts the same with
\* working domains as it would without
WorkingDomainsAreLegalValues ==
    \A v \in Range(unassigned(assignment)) :
        /\ curr_domains[v] # <<>>
        /\ Range(curr_domains[v]) = ZeroConflictValues(v)
        /\ num_legal_values(curr_domains, v, assignment)
              = num_legal_values(<<>>, v, assignment)

\* C24 as stated, for every neighbor dict: under forward_checking, each time a
\* variable is selected after the first commit, every unassigned variable's
\* working domain is non-empty and equals, as a set, the values of its
\* original domain that have zero conflicts with the current assignment.
C24_WorkingDomainsLegal ==
    (inference = "forward_checking" /\ SelectingAfterCommit)
        => WorkingDomainsAreLegalValues

\* C24, amended: the same on a symmetric neighbor graph.
C24_WorkingDomainsLegalSymmetric ==
    (inference = "forward_checking" /\ SelectingAfterCommit /\ Symmetric)
        => WorkingDomainsAreLegalValues

\* A region is selected after an earlier commit was rolled back, and some
\* unassigned region has lost a value to the commits that stand
C24_Witness ==
    /\ inference = "forward_checking"
    /\ SelectingAfterCommit
    /\ Symmetric
    /\ EventsOf({"BACKTRACK"}) # {}
    /\ \E v \in Range(unassigned(assignment)) :
          Len(curr_domains[v]) < Len(domains[v])


\* C25: with forward_checking as inference and the values taken from the
\* current choices (lcv or unordered_domain_values), no CONFLICT event is ever
\* emitted on a symmetric neighbor graph: the value of a TRY never conflicts,
\* every TRY is followed by ASSIGN, and all dead ends surface as INFER_FAIL
\* (a BACKTRACK follows an INFER_FAIL or the BACKTRACK of a deeper call).
C25_NoConflictUnderForwardChecking ==
    (inference = "forward_checking" /\ Symmetric) =>
        /\ At(Cur, "tried") => ~Conflicting(Cur)
        /\ EventsOf({"CONFLICT"}) = {}
        /\ \A i \in EventsOf({"TRY"}) :
              i < Len(trace) =>
                  /\ trace[i + 1].event = "ASSIGN"
                  /\ trace[i + 1].var = trace[i].var
                  /\ trace[i + 1].val = trace[i].val
        /\ \A i \in EventsOf({"BACKTRACK"}) :
              trace[i - 1].event \in {"INFER_FAIL", "BACKTRACK"}
        /\ (tracing /\ outcome = "none") => EventsOf({"INFER_FAIL"}) # {}

\* A search with forward checking on a symmetric graph ended without a
\* solution after a call whose values all failed returned to its caller
C25_Witness ==
    /\ inference = "forward_checking"
    /\ Symmetric
    /\ tracing
    /\ outcome = "none"
    /\ \E i \in EventsOf({"BACKTRACK"}) : trace[i - 1].event = "BACKTRACK"


---------------------------------------------------------------------------
(* Claims about termination *)

\* The searches on one and two regions. The interpreter always takes the
\* program's next step: a single thread, nothing to wait for
InitLive ==
    /\ Init
    /\ Len(variables) <= 2

SpecLive == InitLive /\ [][Next]_vars /\ WF_vars(Next)

\* No call of backtrack is nested deeper than the number of variables
DepthBounded == RecursionDepth <= Len(variables)

\* No two TRY events have the same variable, value and assignment snapshot
NeverTriedTwice ==
    \A i, j \in EventsOf({"TRY"}) :
        (/\ trace[i].var = trace[j].var
         /\ trace[i].val = trace[j].val
         /\ trace[i].assignment = trace[j].assignment) => i = j

\* C26: for every finite problem and strategy combination, also without a
\* trace and a cap, backtracking_search eventually returns a solution or None
\* or aborts on the trace cap; the recursion depth never exceeds the number
\* of variables and the same (variable, value) is never tried twice under
\* the same partial assignment.
C26_Terminates ==
    /\ <>(outcome \in {"solution", "none", "overflow"})
    /\ [](DepthBounded /\ NeverTriedTwice)

\* What does hold: every search ends, by returning, by the cap, or by the
\* internal-invariant error
EventuallyFinished == <>Finished


\* A measure of the work a call of backtrack has left: the values its loop
\* has not finished with, then how far it is with the current one
FrameRank(f) ==
    LET stage == CASE f.pc = "loop" -> 6
                   [] f.pc = "tried" -> 5
                   [] f.pc = "assigned" -> 4
                   [] f.pc \in {"called", "inferfail"} -> 3
                   [] OTHER -> 2
    IN  IF f.pc = "enter" THEN 10 * (NumColors + 2)
        ELSE 10 * (Len(f.values) + 1 - f.idx) + stage

\* The work left in the whole search, outermost call first
Rank(e) ==
    <<CASE e.outcome = "running" -> 2 [] e.outcome = "returned" -> 1 [] OTHER -> 0>>
        \o [i \in DOMAIN e.stack |-> FrameRank(e.stack[i])]

\* a comes before b in the lexicographic order, at a position both have
LexLower(a, b) ==
    \E k \in DOMAIN a \cap DOMAIN b :
        /\ a[k] < b[k]
        /\ \A j \in 1..(k - 1) : a[j] = b[j]

\* Termination on every problem of the model without fairness: every step
\* lowers the rank, which is well-founded, and a search that has not ended
\* has a next step
EveryStepLowersRank ==
    /\ [][LexLower(Rank(Cur)', Rank(Cur))]_vars
    /\ [](~Finished =>
            \/ At(Cur, "enter") \/ At(Cur, "loop") \/ At(Cur, "tried")
            \/ At(Cur, "assigned") \/ At(Cur, "inferfail") \/ At(Cur, "undo")
            \/ outcome = "returned")


---------------------------------------------------------------------------
(* Claims about the trace as a log *)

\* The i-th event is numbered i and has the six fields
NumberedEvents ==
    \A i \in DOMAIN trace :
        /\ trace[i].step = i
        /\ DOMAIN trace[i] = {"step", "depth", "event", "var", "val", "assignment"}

\* The counter is the number of events, one more once the cap refused one
CounterIsLength ==
    tracing => step = Len(trace) + (IF outcome = "overflow" THEN 1 ELSE 0)

\* A step leaves the recorded events as they are and adds at most one
AppendOnly ==
    /\ Len(trace') \in {Len(trace), Len(trace) + 1}
    /\ SubSeq(trace', 1, Len(trace)) = trace

\* C27: the trace is append-only and its step numbers are consecutive: at
\* every moment the i-th recorded event has step = i, starting at 1; earlier
\* events and their assignment snapshots are never modified by later commits
\* or backtracks; all events carry the same six fields.
C27_AppendOnlyTrace ==
    /\ [](NumberedEvents /\ CounterIsLength)
    /\ [][AppendOnly]_vars

\* A BACKTRACK has been logged, and the first ASSIGN's snapshot still shows a
\* value that the assignment no longer holds
C27_Witness ==
    /\ tracing
    /\ EventsOf({"BACKTRACK"}) # {}
    /\ \E i \in EventsOf({"ASSIGN"}) :
          /\ \A j \in EventsOf({"ASSIGN"}) : i <= j
          /\ trace[i].assignment[trace[i].var] = trace[i].val
          /\ assignment[trace[i].var] # trace[i].val

\* ---------------------------------------------------------------------------
\* games.py: TicTacToe, minimax and alpha-beta
\* ---------------------------------------------------------------------------

\* from math import inf: every utility lies strictly between -inf and inf
inf == 2

\* None where a move is expected: a move that is no pair of coordinates
NoMove == <<>>

\* The built-in max and min of two numbers
Max(a, b) == IF a >= b THEN a ELSE b
Min(a, b) == IF a <= b THEN a ELSE b

\* TicTacToe(h, v, k): the object's fields
TicTacToe(h, v, k) == [h |-> h, v |-> v, k |-> k]

\* [(x, y) for x in range(1, h + 1) for y in range(1, v + 1)]
initial_moves(g) ==
    [i \in 1..(g.h * g.v) |-> <<((i - 1) \div g.v) + 1, ((i - 1) % g.v) + 1>>]

\* self.initial: X starts, the board is an empty dict, utility 0
initial(g) ==
    [to_move |-> "X", utility |-> 0, board |-> <<>>, moves |-> initial_moves(g)]

\* board.get(c): a dict holds only the occupied cells
board_get(board, c) == IF c \in DOMAIN board THEN board[c] ELSE None

\* One while loop of k_in_row: how many cells from c on, in direction d,
\* hold the player's symbol
RECURSIVE run(_, _, _, _)
run(board, c, d, symbol) ==
    LET n == <<c[1] + d[1], c[2] + d[2]>>
    IN  IF board_get(board, n) = symbol THEN 1 + run(board, n, d, symbol) ELSE 0

k_in_row(g, board, move, symbol, delta) ==
    1 + run(board, move, delta, symbol)
      + run(board, move, <<-delta[1], -delta[2]>>, symbol) >= g.k

compute_utility(g, board, move, symbol) ==
    IF \/ k_in_row(g, board, move, symbol, <<0, 1>>)
       \/ k_in_row(g, board, move, symbol, <<1, 0>>)
       \/ k_in_row(g, board, move, symbol, <<1, 1>>)
       \/ k_in_row(g, board, move, symbol, <<1, -1>>)
    THEN IF symbol = "X" THEN 1 ELSE -1
    ELSE 0

\* board = dict(state.board); board[move] = state.to_move
Marked(board, move, symbol) ==
    [c \in DOMAIN board \cup {move} |-> IF c = move THEN symbol ELSE board[c]]

\* result, had it left the used move in moves
game_result_keeps_move(g, st, move) ==
    IF move = NoMove \/ move \notin Range(st.moves) THEN st
    ELSE LET board == Marked(st.board, move, st.to_move)
         IN  [to_move |-> IF st.to_move = "X" THEN "O" ELSE "X",
              utility |-> compute_utility(g, board, move, st.to_move),
              board |-> board,
              moves |-> st.moves]

\* TicTacToe.result(state, move)
game_result(g, st, move) ==
    IF move = NoMove \/ move \notin Range(st.moves) THEN st
    ELSE LET board == Marked(st.board, move, st.to_move)
         IN  [to_move |-> IF st.to_move = "X" THEN "O" ELSE "X",
              utility |-> compute_utility(g, board, move, st.to_move),
              board |-> board,
              moves |-> RemoveFirst(st.moves, move)]

\* TicTacToe.utility(state, player)
utility(st, symbol) == IF symbol = "X" THEN st.utility ELSE -st.utility

terminal_test(st) == st.utility # 0 \/ Len(st.moves) = 0

\* TicTacToe.actions(state)
actions(st) == st.moves

RECURSIVE minmax_max_value(_, _, _)
RECURSIVE minmax_min_value(_, _, _)
RECURSIVE minmax_max_loop(_, _, _, _, _)
RECURSIVE minmax_min_loop(_, _, _, _, _)

\* The for loop of minmax_decision's max_value, from the i-th action on,
\* v being the value so far
minmax_max_loop(g, s, symbol, i, v) ==
    IF i > Len(actions(s)) THEN v
    ELSE minmax_max_loop(g, s, symbol, i + 1,
             Max(v, minmax_min_value(g, game_result(g, s, actions(s)[i]), symbol)))

\* The for loop of minmax_decision's min_value
minmax_min_loop(g, s, symbol, i, v) ==
    IF i > Len(actions(s)) THEN v
    ELSE minmax_min_loop(g, s, symbol, i + 1,
             Min(v, minmax_max_value(g, game_result(g, s, actions(s)[i]), symbol)))

\* minmax_decision's max_value(s); symbol is the closure's player
minmax_max_value(g, s, symbol) ==
    IF terminal_test(s) THEN utility(s, symbol)
    ELSE minmax_max_loop(g, s, symbol, 1, -inf)

\* minmax_decision's min_value(s)
minmax_min_value(g, s, symbol) ==
    IF terminal_test(s) THEN utility(s, symbol)
    ELSE minmax_min_loop(g, s, symbol, 1, inf)

\* max(seq, key=...): the first element whose key is the largest
RECURSIVE first_max(_, _, _, _)
first_max(seq, key, i, best) ==
    IF i > Len(seq) THEN best
    ELSE IF key[seq[i]] > key[best] THEN first_max(seq, key, i + 1, seq[i])
    ELSE first_max(seq, key, i + 1, best)

\* minmax_decision(state, game)
minmax_decision(g, st) ==
    LET moves == actions(st)
        key == [a \in Range(moves) |->
                   minmax_min_value(g, game_result(g, st, a), st.to_move)]
    IN  IF moves = <<>> THEN NoMove ELSE first_max(moves, key, 2, moves[1])

RECURSIVE alpha_beta_max_value(_, _, _, _, _)
RECURSIVE alpha_beta_min_value(_, _, _, _, _)
RECURSIVE alpha_beta_max_loop(_, _, _, _, _, _, _)
RECURSIVE alpha_beta_min_loop(_, _, _, _, _, _, _)

\* The for loop of alpha_beta_search's max_value, from the i-th action on:
\* the beta cut returns at once, otherwise alpha rises
alpha_beta_max_loop(g, s, symbol, alpha, beta, i, v) ==
    IF i > Len(actions(s)) THEN v
    ELSE LET v1 == Max(v, alpha_beta_min_value(g, game_result(g, s, actions(s)[i]),
                                              symbol, alpha, beta))
         IN  IF v1 >= beta THEN v1
             ELSE alpha_beta_max_loop(g, s, symbol, Max(alpha, v1), beta, i + 1, v1)

\* The for loop of alpha_beta_search's min_value: the alpha cut returns at
\* once, otherwise beta falls
alpha_beta_min_loop(g, s, symbol, alpha, beta, i, v) ==
    IF i > Len(actions(s)) THEN v
    ELSE LET v1 == Min(v, alpha_beta_max_value(g, game_result(g, s, actions(s)[i]),
                                              symbol, alpha, beta))
         IN  IF v1 <= alpha THEN v1
             ELSE alpha_beta_min_loop(g, s, symbol, alpha, Min(beta, v1), i + 1, v1)

\* alpha_beta_search's max_value(s, alpha, beta)
alpha_beta_max_value(g, s, symbol, alpha, beta) ==
    IF terminal_test(s) THEN utility(s, symbol)
    ELSE alpha_beta_max_loop(g, s, symbol, alpha, beta, 1, -inf)

\* alpha_beta_search's min_value(s, alpha, beta)
alpha_beta_min_value(g, s, symbol, alpha, beta) ==
    IF terminal_test(s) THEN utility(s, symbol)
    ELSE alpha_beta_min_loop(g, s, symbol, alpha, beta, 1, inf)

\* The loop at the root, had it valued each move with max_value, as if the
\* mover moved again
RECURSIVE alpha_beta_root_asks_max(_, _, _, _, _)
alpha_beta_root_asks_max(g, st, i, best_score, best_action) ==
    IF i > Len(actions(st)) THEN best_action
    ELSE LET a == actions(st)[i]
             v == alpha_beta_max_value(g, game_result(g, st, a), st.to_move,
                                       best_score, inf)
         IN  IF v > best_score THEN alpha_beta_root_asks_max(g, st, i + 1, v, a)
             ELSE alpha_beta_root_asks_max(g, st, i + 1, best_score, best_action)

\* The loop at the root of alpha_beta_search: beta stays inf, best_score is
\* handed down as alpha, a strictly better value replaces the best action
RECURSIVE alpha_beta_root(_, _, _, _, _)
alpha_beta_root(g, st, i, best_score, best_action) ==
    IF i > Len(actions(st)) THEN best_action
    ELSE LET a == actions(st)[i]
             v == alpha_beta_min_value(g, game_result(g, st, a), st.to_move,
                                       best_score, inf)
         IN  IF v > best_score THEN alpha_beta_root(g, st, i + 1, v, a)
             ELSE alpha_beta_root(g, st, i + 1, best_score, best_action)

\* alpha_beta_search(state, game)
alpha_beta_search(g, st) == alpha_beta_root(g, st, 1, -inf, NoMove)

\* The boards played on: h, v and k of TicTacToe(h, v, k)
Boards ==
    {TicTacToe(b[1], b[2], b[3]) :
        b \in {<<1, 3, 2>>, <<2, 2, 2>>, <<2, 3, 2>>, <<3, 2, 3>>, <<3, 3, 3>>}}

\* No CSP is built and nothing is solved or parsed
NoCSP ==
    /\ text = <<>>
    /\ graph = <<>>
    /\ variables = <<>>
    /\ domains = <<>>
    /\ neighbors = <<>>
    /\ select_unassigned_variable = "mrv"
    /\ order_domain_values = "lcv"
    /\ inference = "forward_checking"
    /\ tracing = FALSE
    /\ max_steps = <<>>
    /\ log_events = <<>>
    /\ curr_domains = FreshSolve.curr_domains
    /\ nassigns = FreshSolve.nassigns
    /\ assignment = FreshSolve.assignment
    /\ stack = FreshSolve.stack
    /\ trace = FreshSolve.trace
    /\ step = FreshSolve.step
    /\ outcome = FreshSolve.outcome
    /\ result = FreshSolve.result
    /\ twin = FreshSolve
    /\ store = IdleStore
    /\ returned = <<>>
    /\ inferred = <<>>

\* What a caller may hand to result as the move: any cell of the board, free
\* or taken, a cell off the board, or None
Moves(g) == Range(initial_moves(g)) \cup {<<0, 0>>, NoMove}

\* A TicTacToe object is made; state is its initial state
InitGame ==
    /\ NoCSP
    /\ ttt \in Boards
    /\ state = initial(ttt)
    /\ player = 0
    /\ played = <<>>
    /\ final = <<>>

\* state = game.result(state, move), whatever the state and the move
Result ==
    /\ player = 0
    /\ \E move \in Moves(ttt) : state' = game_result(ttt, state, move)
    /\ UNCHANGED <<ttt, player, played, final>>
    /\ UNCHANGED <<text, graph, config, engine, twin, store, returned, direct>>

NextGame == Result

SpecGame == InitGame /\ [][NextGame]_vars

\* A legal move is made in a game that is not over: the states a game-tree
\* search visits and the states a game between legal players passes through
Move ==
    /\ player = 0
    /\ ~terminal_test(state)
    /\ \E a \in Range(actions(state)) : state' = game_result(ttt, state, a)
    /\ UNCHANGED <<ttt, player, played, final>>
    /\ UNCHANGED <<text, graph, config, engine, twin, store, returned, direct>>

NextSearch == Move

SpecSearch == InitGame /\ [][NextSearch]_vars

\* play_game(first, second) has set state = self.initial and is about to ask
\* the first player function
InitPlay ==
    /\ NoCSP
    /\ ttt \in Boards
    /\ state = initial(ttt)
    /\ player = 1
    /\ played = <<>>
    /\ final = <<>>

\* One turn of play_game's for loop: the player function returns a move
\* (query_player returns whatever was typed, None included), result makes the
\* next state, and a terminal state ends the game with utility(state, "X")
PlayerMoves ==
    /\ player \in {1, 2}
    /\ final = <<>>
    /\ \E move \in Moves(ttt) :
          LET next == game_result(ttt, state, move)
          IN  /\ state' = next
              /\ played' = <<[fn |-> player, asked |-> state, move |-> move]>>
              /\ IF terminal_test(next)
                 THEN /\ final' = <<utility(next, "X")>>
                      /\ player' = player
                 ELSE /\ final' = final
                      /\ player' = (player % 2) + 1
    /\ UNCHANGED ttt
    /\ UNCHANGED <<text, graph, config, engine, twin, store, returned, direct>>

NextPlay == PlayerMoves

SpecPlay == InitPlay /\ [][NextPlay]_vars

\* ---------------------------------------------------------------------------
\* Claims about TicTacToe states
\* ---------------------------------------------------------------------------

\* The cells of board that hold the symbol
CellsOf(st, symbol) == {c \in DOMAIN st.board : st.board[c] = symbol}

\* board and moves split the h x v cells between them, no cell twice in moves
BoardAndMovesPartition ==
    /\ DOMAIN state.board \cap Range(state.moves) = {}
    /\ DOMAIN state.board \cup Range(state.moves) = (1..ttt.h) \X (1..ttt.v)
    /\ Cardinality(Range(state.moves)) = Len(state.moves)
    /\ \A c \in DOMAIN state.board : state.board[c] \in {"X", "O"}

\* X has as many cells as O, or one more
XLeadsByAtMostOne ==
    LET x == Cardinality(CellsOf(state, "X"))
        o == Cardinality(CellsOf(state, "O"))
    IN  x = o \/ x = o + 1

\* result hands back the very state it was given when the move is None or is
\* not in state.moves
IllegalMoveChangesNothing ==
    \A move \in Moves(ttt) :
        (move = NoMove \/ move \notin Range(state.moves)) =>
            game_result(ttt, state, move) = state

\* C30: in every state reached from the initial state through result, the
\* occupied cells of board and the cells of moves are disjoint and together
\* are the h x v cells, X holds as many cells as O or one more, and result
\* with None or with a move not in state.moves returns the state unchanged
C30_BoardInvariant ==
    /\ BoardAndMovesPartition
    /\ XLeadsByAtMostOne
    /\ IllegalMoveChangesNothing

\* Some moves were made, X leads by one, a cell is taken and the game was
\* played on past a win
C30_Witness ==
    /\ player = 0
    /\ Cardinality(CellsOf(state, "X")) = Cardinality(CellsOf(state, "O")) + 1
    /\ Cardinality(CellsOf(state, "O")) >= 1
    /\ state.moves # <<>>
    /\ state.utility # 0

\* ---------------------------------------------------------------------------
\* Claims about the game search
\* ---------------------------------------------------------------------------

\* The minimax value of move a for the player to move in st: what the
\* opponent, answering best, leaves of it
MoveValue(g, st, a) == minmax_min_value(g, game_result(g, st, a), st.to_move)

\* C28: in every non-terminal state reached from the initial state,
\* alpha_beta_search returns a legal move, and the minimax value of that move
\* for the player to move equals the minimax value of the move that
\* minmax_decision returns (the same move has the same value)
C28_AlphaBetaSameDecision ==
    ~terminal_test(state) =>
        LET a == alpha_beta_search(ttt, state)
            m == minmax_decision(ttt, state)
        IN  /\ a \in Range(state.moves)
            /\ m \in Range(state.moves)
            /\ a # m => MoveValue(ttt, state, a) = MoveValue(ttt, state, m)

\* A state in which the choice matters: the first legal move is worth less
\* than another one, and both searches pass over it
C28_Witness ==
    /\ player = 0
    /\ ~terminal_test(state)
    /\ \E a \in Range(state.moves) :
          MoveValue(ttt, state, state.moves[1]) < MoveValue(ttt, state, a)
    /\ alpha_beta_search(ttt, state) # state.moves[1]
    /\ minmax_decision(ttt, state) # state.moves[1]

\* ---------------------------------------------------------------------------
\* Claims about play_game
\* ---------------------------------------------------------------------------

\* The last call of a player function made its move: one more cell of the
\* board, marked with the symbol that was to move, that cell gone from moves,
\* to_move switched
CallMadeItsMove ==
    LET before == played[1].asked
    IN  /\ \E cell \in Range(before.moves) :
              /\ state.board = Marked(before.board, cell, before.to_move)
              /\ state.moves = RemoveFirst(before.moves, cell)
        /\ state.to_move # before.to_move
        /\ {state.to_move, before.to_move} = {"X", "O"}

\* The first player function was asked with X to move, the second with O
AskedOnOwnTurn ==
    /\ played[1].fn = 1 => played[1].asked.to_move = "X"
    /\ played[1].fn = 2 => played[1].asked.to_move = "O"

\* C29: in play_game every call of a player function is followed by a state
\* in which the board has one more cell, marked with the mover's symbol, moves
\* has lost that cell and to_move has switched, so that the first player
\* function is only asked when X is to move and the second only when O is,
\* whatever the player functions return (None and illegal moves included)
C29_TurnsAlternate ==
    played # <<>> => CallMadeItsMove /\ AskedOnOwnTurn

\* The same, for the calls that returned a move of state.moves
LegalCallMadeItsMove ==
    (played # <<>> /\ played[1].move \in Range(played[1].asked.moves))
        => CallMadeItsMove

\* The second player function is asked while X is to move: the first one
\* returned None or an illegal move
OutOfStep ==
    /\ played # <<>>
    /\ played[1].fn = 2
    /\ played[1].asked.to_move = "X"
    /\ played[1].move \in Range(played[1].asked.moves)
    /\ state.board[played[1].move] = "X"

===========================================================================
